---- MODULE Spec2Model ----
(***************************************************************************)
(* A model of pyroughtime (src/pyroughtime.py): the Roughtime wire codec   *)
(* (RoughtimeTag, RoughtimePacket), the server's reply construction and    *)
(* the client's query / verify_replies.                                    *)
(*                                                                         *)
(* Byte strings are sequences of items.  A plain byte n is the 1-tuple     *)
(* <<n>>.  SHA-512 and Ed25519 are ideal: a digest is 64 items whose first *)
(* item is the 2-tuple <<input, 0>>, a signature is 64 items whose first   *)
(* item is the 3-tuple <<key, message, 0>>; two digests (signatures) are   *)
(* equal exactly when their inputs are.  Items of different kinds have     *)
(* different lengths, so they are never equal.                             *)
(*                                                                         *)
(* TLC integers are 32 bits wide: every integer field of the inputs that   *)
(* are enumerated stays below 2^31 (times are small numbers of model time  *)
(* units, the upper bytes of 64-bit fields are zero).                      *)
(***************************************************************************)
EXTENDS Integers, Sequences, FiniteSets, TLC

(***************************************************************************)
(* Bytes                                                                   *)
(***************************************************************************)
B(n) == <<n>>

Zeros(n) == [i \in 1..n |-> B(0)]

\* b[offset:end] of Python, for 0 <= offset, end <= len(b).
Slice(b, offset, end) == SubSeq(b, offset + 1, end)

\* struct.pack('<I' / '<Q', val): n little-endian bytes of val.
RECURSIVE LE(_, _)
LE(val, n) == IF n = 0 THEN <<>> ELSE <<B(val % 256)>> \o LE(val \div 256, n - 1)

\* struct.unpack('<I' / '<Q', b): the little-endian value of plain bytes.
RECURSIVE FromLE(_)
FromLE(b) == IF b = <<>> THEN 0 ELSE b[1][1] + 256 * FromLE(Tail(b))

U32Bytes == 4
U64Bytes == 8

\* The values from 2^24 on are all read as 2^24: the decoder compares what it
\* reads, and eight times what it reads, with the length of a datagram only.
Uint32Cap == 256 * 256 * 256

\* RoughtimePacket.unpack_uint32
unpack_uint32(buf, offset) ==
    IF FromLE(Slice(buf, offset + U32Bytes - 1, offset + U32Bytes)) # 0
    THEN Uint32Cap
    ELSE FromLE(Slice(buf, offset, offset + U32Bytes - 1))

(***************************************************************************)
(* Tag keys: four characters, as their character codes.                    *)
(***************************************************************************)
KeyNone == <<0, 0, 0, 0>>
KeySIG  == <<83, 73, 71, 0>>
KeyINDX == <<73, 78, 68, 88>>
KeyPATH == <<80, 65, 84, 72>>
KeyROOT == <<82, 79, 79, 84>>
KeyMIDP == <<77, 73, 68, 80>>
KeyRADI == <<82, 65, 68, 73>>
KeyPAD  == <<80, 65, 68, 255>>
KeyNONC == <<78, 79, 78, 67>>
KeyMINT == <<77, 73, 78, 84>>
KeyMAXT == <<77, 65, 88, 84>>
KeyPUBK == <<80, 85, 66, 75>>
KeySREP == <<83, 82, 69, 80>>
KeyCERT == <<67, 69, 82, 84>>
KeyDELE == <<68, 69, 76, 69>>

leaf_tags == {KeySIG, KeyINDX, KeyPATH, KeyROOT, KeyMIDP, KeyRADI, KeyPAD,
              KeyNONC, KeyMINT, KeyMAXT, KeyPUBK}
parent_tags == {KeySREP, KeyCERT, KeyDELE}

\* RoughtimeTag.tag_str_to_uint32: struct.pack('BBBB', ord(tag[0]), ...)
tag_str_to_uint32(key) == <<B(key[1]), B(key[2]), B(key[3]), B(key[4])>>

\* RoughtimeTag.tag_uint32_to_str(unpack_uint32(packet, offset)): the word is
\* split in its 16-bit halves (a key such as PAD\xff is above 2^31).
unpack_key(buf, offset) ==
    LET lo == FromLE(Slice(buf, offset, offset + 2))
        hi == FromLE(Slice(buf, offset + 2, offset + 4))
    IN  <<lo % 256, lo \div 256, hi % 256, hi \div 256>>

(***************************************************************************)
(* Tags and packets.  A RoughtimeTag is [key, pkt |-> FALSE, value]; a     *)
(* RoughtimePacket is [key, pkt |-> TRUE, tags].                           *)
(***************************************************************************)
RoughtimeTag(key, value) == [key |-> key, pkt |-> FALSE, value |-> value, tags |-> <<>>]

EmptyPacket(key) == [key |-> key, pkt |-> TRUE, value |-> <<>>, tags |-> <<>>]

\* RoughtimePacket.contains_tag
contains_tag(p, key) == \E i \in 1..Len(p.tags) : p.tags[i].key = key

\* RoughtimePacket.add_tag (the caller checks contains_tag where the code
\* can raise).
add_tag(p, tag) == [p EXCEPT !.tags = Append(@, tag)]

\* RoughtimePacket.get_tag, for a tag the packet contains.
get_tag(p, key) == p.tags[CHOOSE i \in 1..Len(p.tags) : p.tags[i].key = key]

\* RoughtimePacket.get_tags
get_tags(p) == [i \in 1..Len(p.tags) |-> p.tags[i].key]

RECURSIVE Concat(_)
Concat(ss) == IF ss = <<>> THEN <<>> ELSE Head(ss) \o Concat(Tail(ss))

\* The offsets of the header: the running sums of the value lengths of all
\* tags but the last.
RECURSIVE header_offsets(_, _)
header_offsets(vals, offset) ==
    IF Len(vals) <= 1 THEN <<>>
    ELSE LE(offset + Len(vals[1]), U32Bytes)
           \o header_offsets(Tail(vals), offset + Len(vals[1]))

RECURSIVE header_keys(_)
header_keys(tags) ==
    IF tags = <<>> THEN <<>>
    ELSE tag_str_to_uint32(tags[1].key) \o header_keys(Tail(tags))

\* RoughtimePacket.get_value_bytes / RoughtimeTag.get_value_bytes
RECURSIVE get_value_bytes(_)
RECURSIVE tag_values(_)
tag_values(tags) ==
    IF tags = <<>> THEN <<>>
    ELSE <<get_value_bytes(tags[1])>> \o tag_values(Tail(tags))

get_value_bytes(t) ==
    IF ~t.pkt THEN t.value
    ELSE LET vals == tag_values(t.tags)
         IN  LE(Len(t.tags), U32Bytes)
               \o header_offsets(vals, 0)
               \o header_keys(t.tags)
               \o Concat(vals)

(***************************************************************************)
(* Decoding: RoughtimePacket(key, packet).  The result is [err, tag]: err  *)
(* is "" on success and otherwise names the exception raised.              *)
(***************************************************************************)
ErrSize      == "Packet size is not a multiple of four."
ErrBadSize   == "Bad packet size."
ErrDuplicate == "Encountered duplicate tag"
ErrUnknown   == "Encountered unknown tag"
AssertionError == "AssertionError"
StructError    == "struct.error"

Ok(tag)  == [err |-> "", tag |-> tag]
Fail(e)  == [err |-> e, tag |-> EmptyPacket(KeyNone)]

RECURSIVE Decode(_, _)
RECURSIVE DecodeTags(_, _, _, _)
RECURSIVE DecodeRest(_, _, _, _, _)

\* One pass of the loop of RoughtimePacket.__init__ (lines 585-602) for the
\* tag i, whose key and value bytes have been read; acc is self.
DecodeTag(packet, num_tags, i, acc, key, value) ==
    IF contains_tag(acc, key) THEN Fail(ErrDuplicate)
    ELSE IF key \in leaf_tags
         THEN IF Len(value) % 4 # 0 THEN Fail(AssertionError)
              ELSE DecodeTags(packet, num_tags, i + 1,
                              add_tag(acc, RoughtimeTag(key, value)))
    ELSE IF key \in parent_tags
         THEN DecodeRest(packet, num_tags, i, acc, Decode(key, value))
    ELSE Fail(ErrUnknown)

\* The loop goes on after the nested packet sub has been read.
DecodeRest(packet, num_tags, i, acc, sub) ==
    IF sub.err # "" THEN sub
    ELSE DecodeTags(packet, num_tags, i + 1, add_tag(acc, sub.tag))

\* Lines 567-589: the value of tag i lies between offset and end.
DecodeValue(packet, num_tags, i, acc, offset, end) ==
    IF offset > Len(packet) THEN Fail(ErrBadSize)
    ELSE IF end > Len(packet) THEN Fail(ErrBadSize)
    ELSE DecodeTag(packet, num_tags, i, acc,
                   unpack_key(packet, (num_tags + i) * 4),
                   Slice(packet, offset, end))

\* The loop of RoughtimePacket.__init__ from tag i on, acc being self.
DecodeTags(packet, num_tags, i, acc) ==
    IF i = num_tags THEN Ok(acc)
    ELSE DecodeValue(packet, num_tags, i, acc,
             IF i = 0 THEN 8 * num_tags
             ELSE unpack_uint32(packet, i * 4) + 8 * num_tags,
             IF i = num_tags - 1 THEN Len(packet)
             ELSE unpack_uint32(packet, (i + 1) * 4) + 8 * num_tags)

\* check_encoding without the assertion of line 606.
check_encoding_skipped(packet, r) == r

\* Lines 604-606 of RoughtimePacket.__init__: the packet that was read is
\* encoded again and compared with the bytes it was read from.
check_encoding(packet, r) ==
    IF r.err # "" THEN r
    ELSE IF packet # get_value_bytes(r.tag) THEN Fail(AssertionError)
    ELSE r

\* RoughtimePacket.__init__(key, packet) for packet /= None.
Decode(key, packet) ==
    IF Len(packet) % 4 # 0 THEN Fail(ErrSize)
    ELSE IF Len(packet) < U32Bytes THEN Fail(StructError)
    ELSE IF 8 * unpack_uint32(packet, 0) > Len(packet) THEN Fail(ErrBadSize)
    ELSE check_encoding(packet,
             DecodeTags(packet, unpack_uint32(packet, 0), 0, EmptyPacket(key)))

(***************************************************************************)
(* Ideal cryptography.  Keys are small numbers; ed25519 keys, signatures   *)
(* and SHA-512 digests have their real lengths.  base64 is left out: the   *)
(* program only ever decodes what it encoded.                              *)
(***************************************************************************)
HashLen   == 64
SigLen    == 64
PubKeyLen == 32

\* hashlib.sha512(x).digest()
sha512(input) == [i \in 1..HashLen |-> IF i = 1 THEN <<input, 0>> ELSE B(0)]

\* SigningKey.sign(msg)
Sign(key, msg) == [i \in 1..SigLen |-> IF i = 1 THEN <<key, msg, 0>> ELSE B(0)]

\* VerifyingKey.to_bytes() of the public half of key.
PubBytes(key) == [i \in 1..PubKeyLen |-> IF i = 1 THEN B(key) ELSE B(0)]

LongKey     == 1
DelegateKey == 2
AttackerKey == DelegateKey + 1
KeyIds == {LongKey, DelegateKey, AttackerKey}

\* VerifyingKey(pubk).verify(sig, msg) does not raise.
Verify(pubk, sig, msg) ==
    \E k \in KeyIds : pubk = PubBytes(k) /\ sig = Sign(k, msg)

Bytes(codes) == [i \in 1..Len(codes) |-> B(codes[i])]

CERTIFICATE_CONTEXT ==
    Bytes(<<82, 111, 117, 103, 104, 84, 105, 109, 101, 32, 118, 49, 32, 100,
            101, 108, 101, 103, 97, 116, 105, 111, 110, 32, 115, 105, 103,
            110, 97, 116, 117, 114, 101, 45, 45, 0>>)
SIGNED_RESPONSE_CONTEXT ==
    Bytes(<<82, 111, 117, 103, 104, 84, 105, 109, 101, 32, 118, 49, 32, 114,
            101, 115, 112, 111, 110, 115, 101, 32, 115, 105, 103, 110, 97,
            116, 117, 114, 101, 0>>)

(***************************************************************************)
(* RoughtimeTag integers                                                   *)
(***************************************************************************)
\* RoughtimeTag.set_value_uint32 / set_value_uint64
set_value_uint32(key, val) == RoughtimeTag(key, LE(val, U32Bytes))
set_value_uint64(key, val) == RoughtimeTag(key, LE(val, U64Bytes))

\* RoughtimeTag.to_int raises ValueError unless the value has 4 or 8 bytes.
to_int_ok(tag) == Len(tag.value) \in {U32Bytes, U64Bytes}
to_int(tag) == FromLE(tag.value)

(***************************************************************************)
(* The server's Merkle tree                                                *)
(***************************************************************************)
RECURSIVE BitOr(_, _)
BitOr(a, b) ==
    IF a = 0 THEN b
    ELSE IF b = 0 THEN a
    ELSE IF a = -1 \/ b = -1 THEN -1
    ELSE 2 * BitOr(a \div 2, b \div 2) + (IF a % 2 = 1 \/ b % 2 = 1 THEN 1 ELSE 0)

\* RoughtimeServer.__clp2
clp2(x0) ==
    LET x1 == x0 - 1
        x2 == BitOr(x1, x1 \div 2)
        x3 == BitOr(x2, x2 \div 4)
        x4 == BitOr(x3, x3 \div 16)
        x5 == BitOr(x4, x4 \div 256)
        x6 == BitOr(x5, x5 \div 65536)
    IN  x6 + 1

\* The levels above `level` (RoughtimeServer.__construct_merkle, prev /= None).
RECURSIVE merkle_levels(_, _, _)
merkle_levels(level, prev, order) ==
    IF order = 0 THEN prev
    ELSE LET out == [n \in 1..(Len(level) \div 2) |->
                        sha512(<<B(1)>> \o level[2 * n - 1] \o level[2 * n])]
         IN  merkle_levels(out, Append(prev, out), order - 1)

RECURSIVE list_order(_)
list_order(size) == IF size % 2 = 1 THEN 0 ELSE 1 + list_order(size \div 2)

\* RoughtimeServer.__construct_merkle(nonces), for a non-empty list; fill
\* are the os.urandom(64) leaves.
construct_merkle(nonces, fill) ==
    LET hashed == [i \in 1..Len(nonces) |-> sha512(<<B(0)>> \o nonces[i])]
        size   == clp2(Len(nonces))
        leaves == hashed \o [i \in 1..(size - Len(nonces)) |-> fill[i]]
    IN  merkle_levels(leaves, <<leaves>>, list_order(size))

\* construct_merkle_path taking the node of the index itself, not its sibling.
RECURSIVE construct_merkle_path_own_node(_, _)
construct_merkle_path_own_node(merkle, index) ==
    IF Len(merkle[1]) > 1
    THEN merkle[1][index + 1]
           \o construct_merkle_path_own_node(Tail(merkle), index \div 2)
    ELSE <<>>

\* RoughtimeServer.__construct_merkle_path (index counts from 0)
RECURSIVE construct_merkle_path(_, _)
construct_merkle_path(merkle, index) ==
    IF Len(merkle[1]) > 1
    THEN merkle[1][(IF index % 2 = 0 THEN index + 1 ELSE index - 1) + 1]
           \o construct_merkle_path(Tail(merkle), index \div 2)
    ELSE <<>>

(***************************************************************************)
(* Keys and certificates                                                   *)
(***************************************************************************)
\* 30 * 24 * 3600 * 1000000 microseconds.  The model counts time in days.
ValidityPeriod == 30

\* The largest whole number of days below 2^64 microseconds: struct.pack
\* ('<Q', val) of set_value_uint64 raises struct.error for a greater value.
Uint64Max == 213503982
pack_uint64_ok(val) == val >= 0 /\ val <= Uint64Max

\* Lines 236-239: <<mint, maxt>> as create_delegate_key writes them.
delegate_window(mint0, maxt0, now) ==
    << IF mint0 = -1 THEN now ELSE mint0,
       IF maxt0 = -1 \/ maxt0 <= (IF mint0 = -1 THEN now ELSE mint0)
       THEN (IF mint0 = -1 THEN now ELSE mint0) + ValidityPeriod
       ELSE maxt0 >>

\* create_delegate_key writing the maxt it is given.
create_delegate_key_as_given(priv, mint0, maxt0, now, dkey) ==
    LET mint == IF mint0 = -1 THEN now ELSE mint0
        maxt == IF maxt0 = -1 THEN mint + ValidityPeriod ELSE maxt0
        dele == add_tag(add_tag(add_tag(EmptyPacket(KeyDELE),
                    set_value_uint64(KeyMINT, mint)),
                    set_value_uint64(KeyMAXT, maxt)),
                    RoughtimeTag(KeyPUBK, PubBytes(dkey)))
        delesig == Sign(priv, CERTIFICATE_CONTEXT \o get_value_bytes(dele))
    IN  add_tag(add_tag(EmptyPacket(KeyCERT), dele), RoughtimeTag(KeySIG, delesig))

\* RoughtimeServer.create_delegate_key(priv, mint, maxt) at wall-clock time
\* now, dkey being the fresh delegate key pair; -1 stands for None.  The
\* result is the CERT packet; the caller gets its get_value_bytes().
create_delegate_key(priv, mint0, maxt0, now, dkey) ==
    LET mint == IF mint0 = -1 THEN now ELSE mint0
        maxt == IF maxt0 = -1 \/ maxt0 <= mint THEN mint + ValidityPeriod ELSE maxt0
        dele == add_tag(add_tag(add_tag(EmptyPacket(KeyDELE),
                    set_value_uint64(KeyMINT, mint)),
                    set_value_uint64(KeyMAXT, maxt)),
                    RoughtimeTag(KeyPUBK, PubBytes(dkey)))
        delesig == Sign(priv, CERTIFICATE_CONTEXT \o get_value_bytes(dele))
    IN  add_tag(add_tag(EmptyPacket(KeyCERT), dele), RoughtimeTag(KeySIG, delesig))

CertLen == 152

\* RoughtimeServer.__init__: [err, cert, pkey, radi]
ErrCertLen  == "Wrong CERT length."
ErrCertPair == "CERT and pkey arguments are not a valid certificate pair."

\* Lines 60-68: the test that pkey signs for the PUBK of the certificate.
check_pair(cert, pkey) ==
    IF ~contains_tag(cert, KeyDELE) THEN "AttributeError"
    ELSE IF ~contains_tag(get_tag(cert, KeyDELE), KeyPUBK) THEN "AttributeError"
    ELSE IF Len(get_tag(get_tag(cert, KeyDELE), KeyPUBK).value) # PubKeyLen
         THEN AssertionError
    ELSE IF ~Verify(get_tag(get_tag(cert, KeyDELE), KeyPUBK).value,
                    Sign(pkey, SIGNED_RESPONSE_CONTEXT), SIGNED_RESPONSE_CONTEXT)
         THEN ErrCertPair
    ELSE ""

\* Lines 56-68, dec being RoughtimePacket('CERT', cert).
server_of(dec, pkey, radi) ==
    [err |-> IF dec.err # "" THEN dec.err ELSE check_pair(dec.tag, pkey),
     cert |-> dec.tag, pkey |-> pkey, radi |-> radi]

RoughtimeServer(cert, pkey, radi) ==
    IF Len(cert) # CertLen
    THEN [err |-> ErrCertLen, cert |-> EmptyPacket(KeyNone), pkey |-> pkey,
          radi |-> radi]
    ELSE server_of(Decode(KeyCERT, cert), pkey, radi)

(***************************************************************************)
(* The server's handling of one datagram (one pass of __recv_thread's      *)
(* loop): [send, data].                                                    *)
(***************************************************************************)
MinRequestLen == 1024
NonceLen == 64

NoReply == [send |-> FALSE, data |-> <<>>]

\* Lines 186-197: the SREP over the root of the tree, the wall-clock time now
\* and the server's radius.
make_srep(root, now, radi) ==
    add_tag(add_tag(add_tag(EmptyPacket(KeySREP),
        RoughtimeTag(KeyROOT, root)),
        set_value_uint64(KeyMIDP, now)),
        set_value_uint32(KeyRADI, radi))

\* make_reply with SREP signed without the context of line 50.
make_reply_no_context(srv, srep, path_bytes) ==
    add_tag(add_tag(add_tag(add_tag(add_tag(EmptyPacket(KeyNone),
        srv.cert),
        set_value_uint32(KeyINDX, 0)),
        RoughtimeTag(KeyPATH, path_bytes)),
        srep),
        RoughtimeTag(KeySIG, Sign(srv.pkey, get_value_bytes(srep))))

make_reply(srv, srep, path_bytes) ==
    add_tag(add_tag(add_tag(add_tag(add_tag(EmptyPacket(KeyNone),
        srv.cert),
        set_value_uint32(KeyINDX, 0)),
        RoughtimeTag(KeyPATH, path_bytes)),
        srep),
        RoughtimeTag(KeySIG,
            Sign(srv.pkey, SIGNED_RESPONSE_CONTEXT \o get_value_bytes(srep))))

reply_merkle(srv, merkle, now) ==
    make_reply(srv, make_srep(merkle[Len(merkle)][1], now, srv.radi),
               construct_merkle_path(merkle, 0))

\* Lines 158-172: the request has been decoded.
handle_request(srv, request, now) ==
    IF request.err # "" THEN NoReply
    ELSE IF ~contains_tag(request.tag, KeyNONC) THEN NoReply
    ELSE IF Len(get_tag(request.tag, KeyNONC).value) # NonceLen THEN NoReply
    ELSE [send |-> TRUE,
          data |-> get_value_bytes(reply_merkle(srv,
                     construct_merkle(<<get_tag(request.tag, KeyNONC).value>>, <<>>),
                     now))]

\* ServerReply without the test of line 155.
ServerReply_any_length(srv, data, now) ==
    handle_request(srv, Decode(KeyNone, data), now)

\* Lines 154-203 for the received bytes data.
ServerReply(srv, data, now) ==
    IF Len(data) < MinRequestLen THEN NoReply
    ELSE handle_request(srv, Decode(KeyNone, data), now)

(***************************************************************************)
(* The client's checks of a reply (RoughtimeClient.query from the decoding *)
(* of the reply on): [err, midp, radi], err = "" when every check passes.  *)
(***************************************************************************)
ErrTimeout  == "Timeout while waiting for reply."
ErrMissing  == "Missing tag in server reply."
ErrParse    == "Missing tag in server reply or parse error."
ErrDeleSig  == "Verification of long term certificate signature failed."
ErrMidp     == "MIDP outside delegated key validity time."
ErrPathLen  == "PATH length not a multiple of 64."
ErrPathMany == "Too many paths in Merkle tree."
ErrIndx     == "INDX not zero after traversing PATH."
ErrRoot     == "Final Merkle tree value not equal to ROOT."
ErrSig      == "Bad DELE key signature."

MaxPathHashes == 32

\* The while loop over PATH: <<curr_hash, indx>> when the path is used up.
RECURSIVE walk_path(_, _, _)
walk_path(curr_hash, indx, path) ==
    IF Len(path) > 0
    THEN walk_path(IF indx % 2 = 0
                   THEN sha512(<<B(1)>> \o curr_hash \o Slice(path, 0, HashLen))
                   ELSE sha512(<<B(1)>> \o Slice(path, 0, HashLen) \o curr_hash),
                   indx \div 2,
                   Slice(path, HashLen, Len(path)))
    ELSE <<curr_hash, indx>>

has_int(p, key) == contains_tag(p, key) /\ to_int_ok(get_tag(p, key))

Failed(e) == [err |-> e, midp |-> 0, radi |-> 0]

\* Lines 406-412: the signature of SREP under the delegated key pubk.
verify_sig(pubk, sig, srep, midp, radi) ==
    IF Len(pubk) # PubKeyLen THEN Failed(AssertionError)
    ELSE IF ~Verify(pubk, sig, SIGNED_RESPONSE_CONTEXT \o get_value_bytes(srep))
         THEN Failed(ErrSig)
    ELSE [err |-> "", midp |-> midp, radi |-> radi]

\* verify_root without the comparison of line 403.
verify_root_unchecked(walked, reply, srep, dele) ==
    IF walked[2] # 0 THEN Failed(ErrIndx)
    ELSE verify_sig(get_tag(dele, KeyPUBK).value, get_tag(reply, KeySIG).value,
                    srep, to_int(get_tag(srep, KeyMIDP)),
                    to_int(get_tag(srep, KeyRADI)))

\* verify_root with the signature of SREP verified before the root is compared.
verify_root_sig_first(walked, reply, srep, dele) ==
    IF walked[2] # 0 THEN Failed(ErrIndx)
    ELSE IF verify_sig(get_tag(dele, KeyPUBK).value, get_tag(reply, KeySIG).value,
                       srep, 0, 0).err # ""
         THEN verify_sig(get_tag(dele, KeyPUBK).value, get_tag(reply, KeySIG).value,
                         srep, 0, 0)
    ELSE IF walked[1] # get_tag(srep, KeyROOT).value THEN Failed(ErrRoot)
    ELSE [err |-> "", midp |-> to_int(get_tag(srep, KeyMIDP)),
          radi |-> to_int(get_tag(srep, KeyRADI))]

\* Lines 401-404: walked is what the loop over PATH has left.
verify_root(walked, reply, srep, dele) ==
    IF walked[2] # 0 THEN Failed(ErrIndx)
    ELSE IF walked[1] # get_tag(srep, KeyROOT).value THEN Failed(ErrRoot)
    ELSE verify_sig(get_tag(dele, KeyPUBK).value, get_tag(reply, KeySIG).value,
                    srep, to_int(get_tag(srep, KeyMIDP)),
                    to_int(get_tag(srep, KeyRADI)))

\* verify_path with the message of line 388 raised at line 386.
verify_path_one_message(reply, srep, dele, nonce, indx, path) ==
    IF Len(path) % HashLen # 0 THEN Failed(ErrPathMany)
    ELSE IF Len(path) > MaxPathHashes * HashLen THEN Failed(ErrPathMany)
    ELSE verify_root(walk_path(sha512(<<B(0)>> \o nonce), indx, path),
                     reply, srep, dele)

\* Lines 382-399: the Merkle path.
verify_path(reply, srep, dele, nonce, indx, path) ==
    IF Len(path) % HashLen # 0 THEN Failed(ErrPathLen)
    ELSE IF Len(path) > MaxPathHashes * HashLen THEN Failed(ErrPathMany)
    ELSE verify_root(walk_path(sha512(<<B(0)>> \o nonce), indx, path),
                     reply, srep, dele)

\* verify_dele with the window test of line 379 made strict.
verify_dele_strict(reply, srep, dsig, dele, nonce, pubkey, midp) ==
    IF ~Verify(pubkey, dsig, CERTIFICATE_CONTEXT \o get_value_bytes(dele))
    THEN Failed(ErrDeleSig)
    ELSE IF to_int(get_tag(dele, KeyMINT)) >= midp
              \/ to_int(get_tag(dele, KeyMAXT)) <= midp THEN Failed(ErrMidp)
    ELSE verify_path(reply, srep, dele, nonce, to_int(get_tag(reply, KeyINDX)),
                     get_tag(reply, KeyPATH).value)

\* Lines 370-380: the delegation.
verify_dele(reply, srep, dsig, dele, nonce, pubkey, midp) ==
    IF ~Verify(pubkey, dsig, CERTIFICATE_CONTEXT \o get_value_bytes(dele))
    THEN Failed(ErrDeleSig)
    ELSE IF to_int(get_tag(dele, KeyMINT)) > midp
              \/ to_int(get_tag(dele, KeyMAXT)) < midp THEN Failed(ErrMidp)
    ELSE verify_path(reply, srep, dele, nonce, to_int(get_tag(reply, KeyINDX)),
                     get_tag(reply, KeyPATH).value)

\* Lines 356-368: the try block that reads the fields.
verify_fields(reply, srep, cert, dele, nonce, pubkey) ==
    IF ~(/\ contains_tag(cert, KeySIG)
         /\ has_int(srep, KeyMIDP)
         /\ has_int(srep, KeyRADI)
         /\ contains_tag(srep, KeyROOT)
         /\ contains_tag(reply, KeySIG)
         /\ has_int(reply, KeyINDX)
         /\ contains_tag(reply, KeyPATH)
         /\ contains_tag(dele, KeyPUBK)
         /\ has_int(dele, KeyMINT)
         /\ has_int(dele, KeyMAXT))
    THEN Failed(ErrParse)
    ELSE verify_dele(reply, srep, get_tag(cert, KeySIG).value, dele, nonce,
                     pubkey, to_int(get_tag(srep, KeyMIDP)))

\* Lines 352-354: DELE is looked for in CERT.
verify_cert(reply, srep, cert, nonce, pubkey) ==
    IF ~contains_tag(cert, KeyDELE) THEN Failed(ErrMissing)
    ELSE verify_fields(reply, srep, cert, get_tag(cert, KeyDELE), nonce, pubkey)

\* Lines 345-351, dec being RoughtimePacket(packet=data).
verify_packet(dec, nonce, pubkey) ==
    IF dec.err # "" THEN Failed(dec.err)
    ELSE IF ~contains_tag(dec.tag, KeySREP) \/ ~contains_tag(dec.tag, KeyCERT)
         THEN Failed(ErrMissing)
    ELSE verify_cert(dec.tag, get_tag(dec.tag, KeySREP),
                     get_tag(dec.tag, KeyCERT), nonce, pubkey)

verify_reply(data, nonce, pubkey) ==
    verify_packet(Decode(KeyNone, data), nonce, pubkey)

(***************************************************************************)
(* The client's request, history and audit                                 *)
(***************************************************************************)
PaddedLen == 1024
PadBase   == 1016

\* RoughtimePacket.add_padding, for a packet without a PAD tag (with one,
\* add_tag raises).  b'\x00' * padlen is empty for padlen < 0.
pad_to(p, packetlen) ==
    IF packetlen >= PaddedLen THEN p
    ELSE add_tag(p, RoughtimeTag(KeyPAD, Zeros(PadBase - packetlen)))

add_padding(p) == pad_to(p, Len(get_value_bytes(p)))

\* make_nonce without the update of line 321.
make_nonce_unchained(history, blind) == sha512(blind)

\* Lines 317-323: the nonce of a query.
make_nonce(history, blind) ==
    sha512((IF Len(history) > 0 THEN history[Len(history)][3] ELSE <<>>) \o blind)

\* Lines 326-328: the request packet.
make_request(nonce) ==
    get_value_bytes(add_padding(add_tag(EmptyPacket(KeyNone), RoughtimeTag(KeyNONC, nonce))))

\* prune dropping the last entries instead of the first.
prune_newest(history, maxlen) ==
    IF Len(history) > maxlen THEN SubSeq(history, 1, maxlen) ELSE history

\* Lines 415-416: while len(prev_replies) > max_history_len: drop the first.
RECURSIVE prune(_, _)
prune(history, maxlen) ==
    IF Len(history) > maxlen THEN prune(Tail(history), maxlen) ELSE history

\* Lines 414-416.
record_reply(history, entry, maxlen) == prune(Append(history, entry), maxlen)

\* Lines 450-456: the SREP of a stored reply.
stored_srep(entry) == get_tag(Decode(KeyNone, entry[3]).tag, KeySREP)

\* violates with >= for >.
violates_inclusive(midp_i, radi_i, midp_k, radi_k) ==
    midp_i - radi_i >= midp_k + radi_k

\* The test of line 457 for the replies at i and k.
violates(midp_i, radi_i, midp_k, radi_k) == midp_i - radi_i > midp_k + radi_k

srep_violates(srep_i, srep_k) ==
    violates(to_int(get_tag(srep_i, KeyMIDP)), to_int(get_tag(srep_i, KeyRADI)),
             to_int(get_tag(srep_k, KeyMIDP)), to_int(get_tag(srep_k, KeyRADI)))

\* RoughtimeClient.verify_replies: the list of pairs, indexes from 0.
RECURSIVE verify_inner(_, _, _)
verify_inner(history, i, k) ==
    IF k > Len(history) THEN <<>>
    ELSE (IF srep_violates(stored_srep(history[i]), stored_srep(history[k]))
          THEN << <<i - 1, k - 1>> >> ELSE <<>>)
         \o verify_inner(history, i, k + 1)

RECURSIVE verify_outer(_, _)
verify_outer(history, i) ==
    IF i > Len(history) THEN <<>>
    ELSE verify_inner(history, i, i + 1) \o verify_outer(history, i + 1)

verify_replies(history) == verify_outer(history, 1)

(***************************************************************************)
(* Datagrams of the attacker, sent with the server's address as source.    *)
(***************************************************************************)
FlipItem(item) == IF Len(item) = 1 THEN B((item[1] + 1) % 256) ELSE B(1)

\* bytes with its k-th byte changed.
FlipAt(bytes, k) == [bytes EXCEPT ![k] = FlipItem(@)]

tag_index(p, key) == CHOOSE i \in 1..Len(p.tags) : p.tags[i].key = key

\* The packet with the k-th byte of the value of the tag at path changed.
RECURSIVE flip_field(_, _, _)
flip_field(t, path, k) ==
    IF path = <<>> THEN [t EXCEPT !.value = FlipAt(@, k)]
    ELSE [t EXCEPT !.tags[tag_index(t, path[1])] = flip_field(@, Tail(path), k)]

\* The packet with the value of the top-level tag key replaced.
set_field(t, key, value) == [t EXCEPT !.tags[tag_index(t, key)].value = value]

\* The packet without its top-level tag key.
drop_tag(t, key) ==
    [t EXCEPT !.tags = SubSeq(@, 1, tag_index(t, key) - 1)
                         \o SubSeq(@, tag_index(t, key) + 1, Len(@))]

\* Single bytes of a reply: the field, the path of its tag, the byte.
FieldBytes ==
    << <<"ROOT", <<KeySREP, KeyROOT>>, 1>>,
       <<"ROOT", <<KeySREP, KeyROOT>>, 2>>,
       <<"MIDP", <<KeySREP, KeyMIDP>>, 1>>,
       <<"RADI", <<KeySREP, KeyRADI>>, 1>>,
       <<"DELE", <<KeyCERT, KeyDELE, KeyMINT>>, 1>>,
       <<"DELE", <<KeyCERT, KeyDELE, KeyMAXT>>, 1>>,
       <<"DELE", <<KeyCERT, KeyDELE, KeyPUBK>>, 1>>,
       <<"CERT.SIG", <<KeyCERT, KeySIG>>, 1>>,
       <<"CERT.SIG", <<KeyCERT, KeySIG>>, 2>>,
       <<"SIG", <<KeySIG>>, 1>>,
       <<"SIG", <<KeySIG>>, SigLen>>,
       <<"INDX", <<KeyINDX>>, 1>> >>

\* The reply g with one byte of a field changed.
Flipped(g, f) == get_value_bytes(flip_field(Decode(KeyNone, g).tag, f[2], f[3]))

\* The reply g, which decodes to t, changed in its structure.
AlteredOf(g, t) ==
    << get_value_bytes(set_field(t, KeyPATH, Zeros(HashLen))),
       get_value_bytes(set_field(set_field(t, KeyPATH, Zeros(HashLen)),
                                 KeyINDX, LE(1, U32Bytes))),
       get_value_bytes(set_field(t, KeyPATH, Zeros(U32Bytes))),
       get_value_bytes(set_field(t, KeyPATH, Zeros((MaxPathHashes + 1) * HashLen))),
       get_value_bytes(set_field(t, KeyINDX, Zeros(3 * U32Bytes))),
       get_value_bytes(drop_tag(t, KeySIG)),
       get_value_bytes(drop_tag(t, KeyCERT)),
       FlipAt(g, 1),
       FlipAt(g, 2 * U32Bytes + 1),
       FlipAt(g, 6 * U32Bytes + 1),
       SubSeq(g, 1, Len(g) - 1),
       SubSeq(g, 1, Len(g) - U32Bytes),
       get_value_bytes(set_field(t, KeyPATH, Zeros(HashLen + 1))) >>

Altered(g) == AlteredOf(g, Decode(KeyNone, g).tag)

RecvBufLen == 1500

\* sock.recvfrom(1500): the bytes of a datagram beyond the buffer are lost.
recvfrom(datagram) ==
    IF Len(datagram) > RecvBufLen THEN SubSeq(datagram, 1, RecvBufLen) ELSE datagram

\* Datagrams made without a reply of the server: nothing, zero bytes, the
\* reply of a server that the attacker runs with keys of its own, and the
\* last stored reply again.
Made(history, request) ==
    << <<>>,
       Zeros(2 * U32Bytes),
       ServerReply(RoughtimeServer(get_value_bytes(
           create_delegate_key(AttackerKey, -1, -1, 2, AttackerKey)),
           AttackerKey, 1), request, 2).data >>
      \o (IF Len(history) > 0 THEN <<history[Len(history)][3]>> ELSE <<>>)

\* What can be delivered to the client: <<kind, index>>.
FromServer == <<"server", 0>>
Forgeries(replies, history) ==
    (IF replies = {} THEN {}
     ELSE {<<"flip", i>> : i \in 1..Len(FieldBytes)}
            \cup {<<"alter", i>> : i \in 1..13})
      \cup {<<"made", i>> : i \in 1..(3 + (IF Len(history) > 0 THEN 1 ELSE 0))}

\* The bytes of a delivery, g being the server's reply.
Delivered(what, g, history, request) ==
    CASE what[1] = "server" -> g
      [] what[1] = "flip"   -> Flipped(g, FieldBytes[what[2]])
      [] what[1] = "alter"  -> Altered(g)[what[2]]
      [] what[1] = "made"   -> Made(history, request)[what[2]]

(***************************************************************************)
(* The system: one client, one server built by test_server's steps, and a  *)
(* network that loses datagrams and on which an attacker sends datagrams   *)
(* with any source address.                                                *)
(***************************************************************************)
VARIABLES
    prev_replies,     \* RoughtimeClient.prev_replies: <<nonce, blind, data>>
    max_history_len,  \* RoughtimeClient.max_history_len
    cl_pc,            \* "idle"; "wait" inside query's receive loop; "done"
                      \* when query ends; "audited" when verify_replies ends
    cl_nonce,         \* query's nonce
    cl_blind,         \* query's blind
    cl_pubkey,        \* query's pubkey argument
    result,           \* how the last query ended
    audit,            \* what the last verify_replies() returned
    server,           \* the RoughtimeServer object
    req_net,          \* datagrams on their way to the server
    rep_net,          \* the server's datagrams on their way to the client
    n_ok,             \* history: the number of queries that returned
    dropped,          \* history: the reply bytes last dropped by line 416
    cd_pkt,           \* a RoughtimePacket that a caller of the codec builds
    cd_pc,            \* "build", "padded", "encoded" or "decoded"
    cd_padded,        \* how the call of add_padding() on cd_pkt went
    cd_wire,          \* bytes: what get_value_bytes() gave, or garbled bytes
    cd_dec,           \* what RoughtimePacket(packet=cd_wire) gave
    run,              \* RoughtimeServer.run: "unset", "True" or "False"
    sock,             \* RoughtimeServer.sock: -1 unset, 0 None, or a socket
    thread,           \* RoughtimeServer.thread: -1 unset, 0 None, or a thread
    sockets,          \* the sockets that start() has made
    threads,          \* the threads that start() has started
    main_pc,          \* the caller: "none" without a server object, "ready"
                      \* between calls, "joining" inside stop()
    call,             \* history: the caller's last call and how it ended
    ctor,             \* history: the arguments of the constructor call
    srv_in,           \* datagrams in the receive queues of the sockets
    n_dgrams,         \* history: the number of datagrams sent to the server
    mk,               \* a batch of nonces, its Merkle tree and a path in it
    rx,               \* the receive loop of a query, with the time it reads
    dk                \* a call of create_delegate_key and the use of its result

query_vars == <<prev_replies, max_history_len, cl_pc, cl_nonce, cl_blind, cl_pubkey,
                result, audit, req_net, rep_net, n_ok, dropped>>
sys_vars == <<query_vars, server>>
codec_vars == <<cd_pkt, cd_pc, cd_padded, cd_wire, cd_dec>>
life_vars == <<run, sock, thread, sockets, threads, main_pc, call, ctor, srv_in,
               n_dgrams>>
vars == <<sys_vars, codec_vars, life_vars, mk, rx, dk>>

MaxQueries == 2
MaxHist    == 2
KeyCreationTime == 2
Radii  == {1, 15}
Blinds == {1}

Blind(b) == [i \in 1..NonceLen |-> B(b)]

\* RoughtimeServer.test_server without start(): the keys and the server.
TestCert == create_delegate_key(LongKey, -1, -1, KeyCreationTime, DelegateKey)
MINT == KeyCreationTime
MAXT == KeyCreationTime + ValidityPeriod

\* The wall clock of the server when it answers.
ClockValues == {MINT - 1, MINT, MAXT, MAXT + 1}

\* done: query has ended; recv: a datagram from the queried address ended
\* the receive loop; intime: the test of line 343 found the time below the
\* timeout; what, data: the datagram and its bytes; before: prev_replies
\* when query was called; err, midp, radi: what query raised or returned.
NoResult == [done |-> FALSE, recv |-> FALSE, intime |-> FALSE, what |-> <<"", 0>>,
             data |-> <<>>, before |-> <<>>, err |-> "", midp |-> 0, radi |-> 0]
\* fresh: verify_replies has ended; pairs: what it returned; before:
\* prev_replies when it was called.
NoAudit  == [fresh |-> FALSE, pairs |-> <<>>, before |-> <<>>]

\* add_padding() has not been called, RoughtimePacket(packet=...) neither.
NotPadded  == [done |-> FALSE, raised |-> FALSE, before |-> EmptyPacket(KeyNone)]
NotDecoded == [done |-> FALSE, err |-> "", tag |-> EmptyPacket(KeyNone),
               from |-> <<>>]

\* No call has been made; the constructor has not been called; no batch.
NoCall  == [op |-> "", err |-> "", returned |-> FALSE]
NoCtor  == [done |-> FALSE, cert |-> <<>>, pkey |-> 0, radi |-> 0]
\* query has not reached its receive loop.
NoWait == [pc |-> "idle", timeout |-> 0, clock |-> 0, data |-> <<>>,
           n_recv |-> 0, matched_at |-> -1, verified |-> <<>>, err |-> ""]

\* create_delegate_key has not been called.
NoIssue == [pc |-> "idle", mint |-> -1, maxt |-> -1, now |-> 0, cert |-> <<>>,
            err |-> "", ctor_err |-> ""]

\* No batch is being worked on.
NoBatch == [nonces |-> <<>>, merkle |-> <<>>, index |-> 0, path |-> <<>>,
            done |-> FALSE, pc |-> "idle", leaves |-> <<>>, size |-> 0,
            order |-> 0]

\* RoughtimeClient(max_history_len), no query made.
InitClient ==
    /\ prev_replies = <<>>
    /\ max_history_len \in 0..MaxHist
    /\ cl_pc = "idle"
    /\ cl_nonce = <<>>
    /\ cl_blind = <<>>
    /\ cl_pubkey = <<>>
    /\ result = NoResult
    /\ audit = NoAudit
    /\ req_net = {}
    /\ rep_net = {}
    /\ n_ok = 0
    /\ dropped = <<>>

\* No caller of the codec, no batch of nonces.
InitTools ==
    /\ cd_pkt = EmptyPacket(KeyNone)
    /\ cd_pc = "build"
    /\ cd_padded = NotPadded
    /\ cd_wire = <<>>
    /\ cd_dec = NotDecoded
    /\ mk = NoBatch
    /\ rx = NoWait
    /\ dk = NoIssue

\* The attributes that start() and stop() use are not set by __init__.
InitLife ==
    /\ run = "unset"
    /\ sock = -1
    /\ thread = -1
    /\ sockets = <<>>
    /\ threads = <<>>
    /\ main_pc = "none"
    /\ call = NoCall
    /\ ctor = NoCtor
    /\ srv_in = {}
    /\ n_dgrams = 0

Init ==
    /\ InitClient
    /\ \E radi \in Radii :
          server = RoughtimeServer(get_value_bytes(TestCert), DelegateKey, radi)
    /\ server.err = ""
    /\ InitTools
    /\ InitLife

\* query up to the sendto of line 334.
QuerySend(blind, pubkey) ==
    /\ cl_pc = "idle"
    /\ n_ok < MaxQueries
    /\ cl_pc' = "wait"
    /\ cl_blind' = blind
    /\ cl_nonce' = make_nonce(prev_replies, blind)
    /\ cl_pubkey' = pubkey
    /\ req_net' = {make_request(cl_nonce')}
    /\ rep_net' = {}
    /\ UNCHANGED <<prev_replies, max_history_len, result, audit, server, n_ok,
                   dropped>>
    /\ UNCHANGED <<codec_vars, life_vars, mk, rx, dk>>

\* One pass of __recv_thread's loop that receives a datagram.
ServerHandle(now) ==
    /\ \E d \in req_net :
         \E r \in {ServerReply(server, recvfrom(d), now)} :
             /\ req_net' = req_net \ {d}
             /\ rep_net' = IF r.send THEN rep_net \cup {r.data} ELSE rep_net
    /\ UNCHANGED <<prev_replies, max_history_len, cl_pc, cl_nonce, cl_blind,
                   cl_pubkey, result, audit, server, n_ok, dropped>>
    /\ UNCHANGED <<codec_vars, life_vars, mk, rx, dk>>

\* The end of a query's receive loop and checks.
QueryEnds ==
    /\ cl_pc' = "done"
    /\ UNCHANGED <<cl_nonce, cl_blind, cl_pubkey, req_net, rep_net>>
    /\ UNCHANGED <<codec_vars, life_vars, mk, rx, dk>>

\* Finished with lines 414-416 run before the checks' outcome is looked at.
Finished_always(v, entry, what) ==
    /\ QueryEnds
    /\ result' = [done |-> TRUE, recv |-> TRUE, intime |-> TRUE, what |-> what,
                  data |-> entry[3], before |-> prev_replies,
                  err |-> v.err, midp |-> v.midp, radi |-> v.radi]
    /\ prev_replies' = record_reply(prev_replies, entry, max_history_len)
    /\ n_ok' = IF v.err = "" THEN n_ok + 1 ELSE n_ok
    /\ dropped' = dropped
    /\ UNCHANGED <<max_history_len, audit, server>>

\* Lines 414-416 and the return, or the raise: v is what the checks found.
Finished(v, entry, what) ==
    /\ QueryEnds
    /\ result' = [done |-> TRUE, recv |-> TRUE, intime |-> TRUE, what |-> what,
                  data |-> entry[3], before |-> prev_replies,
                  err |-> v.err, midp |-> v.midp, radi |-> v.radi]
    /\ IF v.err = ""
       THEN /\ prev_replies' = record_reply(prev_replies, entry, max_history_len)
            /\ n_ok' = n_ok + 1
            /\ dropped' = IF Len(prev_replies) + 1 > max_history_len
                          THEN Append(prev_replies, entry)
                                 [Len(prev_replies) + 1 - max_history_len][3]
                          ELSE dropped
       ELSE UNCHANGED <<prev_replies, n_ok, dropped>>
    /\ UNCHANGED <<max_history_len, audit, server>>

\* query from the datagram that ends the receive loop on: data, the first
\* 1500 bytes of the datagram, came from the queried address; the time read
\* at line 343 is below the timeout.
Received(data, what) ==
    Finished(verify_reply(data, cl_nonce, cl_pubkey), <<cl_nonce, cl_blind, data>>, what)

Finish(datagram, what) == Received(recvfrom(datagram), what)

\* query's loop ends with the server's datagram.
ClientRecv ==
    /\ cl_pc = "wait"
    /\ \E g \in rep_net : Finish(g, FromServer)

\* query's loop ends with a datagram of the attacker.
ClientRecvForged ==
    /\ cl_pc = "wait"
    /\ \E what \in Forgeries(rep_net, prev_replies) :
         Finish(Delivered(what, CHOOSE g \in rep_net : TRUE, prev_replies,
                          make_request(cl_nonce)), what)

\* query's loop ends with a datagram from the queried address, and the time
\* read at line 343 has reached the timeout.
ClientRecvLate ==
    /\ cl_pc = "wait"
    /\ rep_net # {}
    /\ QueryEnds
    /\ result' = [NoResult EXCEPT !.done = TRUE, !.recv = TRUE, !.what = FromServer,
                                  !.before = prev_replies, !.err = ErrTimeout]
    /\ UNCHANGED <<prev_replies, max_history_len, audit, server, n_ok, dropped>>

\* query's loop ends because the timeout has passed.
ClientTimeout ==
    /\ cl_pc = "wait"
    /\ QueryEnds
    /\ result' = [NoResult EXCEPT !.done = TRUE, !.before = prev_replies,
                                  !.err = ErrTimeout]
    /\ UNCHANGED <<prev_replies, max_history_len, audit, server, n_ok, dropped>>

\* Line 341: a datagram from another address is passed over.
ClientDiscard ==
    /\ cl_pc = "wait"
    /\ UNCHANGED vars

\* query has returned its result or raised its error to the caller: its
\* locals and its socket are gone.
QueryReturns ==
    /\ cl_pc = "done"
    /\ cl_pc' = "idle"
    /\ cl_nonce' = <<>>
    /\ cl_blind' = <<>>
    /\ cl_pubkey' = <<>>
    /\ req_net' = {}
    /\ rep_net' = {}
    /\ result' = NoResult
    /\ UNCHANGED <<prev_replies, max_history_len, audit, server, n_ok, dropped>>
    /\ UNCHANGED <<codec_vars, life_vars, mk, rx, dk>>

\* RoughtimeClient.verify_replies
VerifyReplies ==
    /\ cl_pc = "idle"
    /\ cl_pc' = "audited"
    /\ audit' = [fresh |-> TRUE, pairs |-> verify_replies(prev_replies),
                 before |-> prev_replies]
    /\ UNCHANGED <<prev_replies, max_history_len, cl_nonce, cl_blind, cl_pubkey,
                   result, server, req_net, rep_net, n_ok, dropped>>
    /\ UNCHANGED <<codec_vars, life_vars, mk, rx, dk>>

\* verify_replies has returned its list to the caller.
VerifyReturns ==
    /\ cl_pc = "audited"
    /\ cl_pc' = "idle"
    /\ audit' = NoAudit
    /\ UNCHANGED <<prev_replies, max_history_len, cl_nonce, cl_blind, cl_pubkey,
                   result, server, req_net, rep_net, n_ok, dropped>>
    /\ UNCHANGED <<codec_vars, life_vars, mk, rx, dk>>

Next ==
    \/ \E b \in Blinds, k \in {LongKey, AttackerKey} : QuerySend(Blind(b), PubBytes(k))
    \/ \E now \in ClockValues : ServerHandle(now)
    \/ ClientRecv
    \/ ClientRecvForged
    \/ ClientRecvLate
    \/ ClientTimeout
    \/ ClientDiscard
    \/ QueryReturns
    \/ VerifyReplies
    \/ VerifyReturns

Spec == Init /\ [][Next]_vars

(***************************************************************************)
(* The codec on its own: a caller builds a packet with add_tag, calls      *)
(* add_padding(), encodes it, and the bytes, as they are or garbled, are   *)
(* decoded.                                                                *)
(***************************************************************************)
MaxTags == 3

\* The tags that the caller adds: leaves and nested packets.
CodecTags ==
    {RoughtimeTag(KeyNONC, Zeros(n)) : n \in {NonceLen, PadBase - 8, PadBase - 4}}
      \cup {RoughtimeTag(KeyPAD, <<>>), set_value_uint32(KeyINDX, 1),
            make_srep(Zeros(HashLen), 5, 1), TestCert}

\* p.add_tag(tag): raises when p has a tag with tag's key.
CodecAddTag(tag) ==
    /\ cd_pc = "build"
    /\ Len(cd_pkt.tags) < MaxTags
    /\ cd_pkt' = IF contains_tag(cd_pkt, tag.key) THEN cd_pkt ELSE add_tag(cd_pkt, tag)
    /\ UNCHANGED <<cd_pc, cd_padded, cd_wire, cd_dec>>
    /\ UNCHANGED <<sys_vars, life_vars, mk, rx, dk>>

\* p.add_padding(): raises, by add_tag, when a PAD tag is to be added to a
\* packet that has one.
CodecAddPadding ==
    /\ cd_pc = "build"
    /\ cd_pc' = "padded"
    /\ IF contains_tag(cd_pkt, KeyPAD) /\ Len(get_value_bytes(cd_pkt)) < PaddedLen
       THEN /\ cd_padded' = [done |-> TRUE, raised |-> TRUE, before |-> cd_pkt]
            /\ cd_pkt' = cd_pkt
       ELSE /\ cd_padded' = [done |-> TRUE, raised |-> FALSE, before |-> cd_pkt]
            /\ cd_pkt' = add_padding(cd_pkt)
    /\ UNCHANGED <<cd_wire, cd_dec>>
    /\ UNCHANGED <<sys_vars, life_vars, mk, rx, dk>>

\* p.get_value_bytes()
CodecEncode ==
    /\ cd_pc \in {"build", "padded"}
    /\ cd_pc' = "encoded"
    /\ cd_wire' = get_value_bytes(cd_pkt)
    /\ UNCHANGED <<cd_pkt, cd_padded, cd_dec>>
    /\ UNCHANGED <<sys_vars, life_vars, mk, rx, dk>>

\* The bytes changed on their way: a changed byte at k, a word of zero bytes
\* more, a word or a byte less.
Garbled(bytes) ==
    {FlipAt(bytes, k) : k \in {1, U32Bytes + 1, Len(bytes)} \cap (1..Len(bytes))}
      \cup {bytes \o Zeros(U32Bytes),
            SubSeq(bytes, 1, Len(bytes) - U32Bytes),
            SubSeq(bytes, 1, Len(bytes) - 1)}

CodecGarble ==
    /\ cd_pc = "encoded"
    /\ cd_wire = get_value_bytes(cd_pkt)
    /\ cd_wire' \in Garbled(cd_wire)
    /\ UNCHANGED <<cd_pkt, cd_pc, cd_padded, cd_dec>>
    /\ UNCHANGED <<sys_vars, life_vars, mk, rx, dk>>

\* RoughtimePacket(packet=cd_wire)
CodecDecode ==
    /\ cd_pc = "encoded"
    /\ cd_pc' = "decoded"
    /\ \E r \in {Decode(KeyNone, cd_wire)} :
          cd_dec' = [done |-> TRUE, err |-> r.err, tag |-> r.tag, from |-> cd_wire]
    /\ UNCHANGED <<cd_pkt, cd_padded, cd_wire>>
    /\ UNCHANGED <<sys_vars, life_vars, mk, rx, dk>>

\* The caller starts over with RoughtimePacket().
CodecReset ==
    /\ cd_pc = "decoded"
    /\ cd_pkt' = EmptyPacket(KeyNone)
    /\ cd_pc' = "build"
    /\ cd_padded' = NotPadded
    /\ cd_wire' = <<>>
    /\ cd_dec' = NotDecoded
    /\ UNCHANGED <<sys_vars, life_vars, mk, rx, dk>>

InitCodec == Init /\ max_history_len = 0 /\ server.radi = 1

NextCodec ==
    \/ \E tag \in CodecTags : CodecAddTag(tag)
    \/ CodecAddPadding
    \/ CodecEncode
    \/ CodecGarble
    \/ CodecDecode
    \/ CodecReset

SpecCodec == InitCodec /\ [][NextCodec]_vars

(***************************************************************************)
(* The server object and its worker: a caller constructs a RoughtimeServer *)
(* and calls start() and stop() on it; each start() that binds its socket  *)
(* starts a thread that runs __recv_thread; datagrams arrive at the bound  *)
(* sockets.                                                                *)
(***************************************************************************)
MaxStarts    == 2
MaxDatagrams == 1

Ports == {1, 2}

\* The attacker's delegate certificate: create_delegate_key under its own key.
AttackerCert == create_delegate_key(AttackerKey, -1, -1, KeyCreationTime, AttackerKey)

\* A packet of the given leaves.
PacketOf(tags) ==
    [key |-> KeyNone, pkt |-> TRUE, value |-> <<>>, tags |-> tags]

\* The cert arguments of the constructor, base64 decoded.
CtorCerts ==
    << get_value_bytes(TestCert),
       get_value_bytes(AttackerCert),
       SubSeq(get_value_bytes(TestCert), 1, CertLen - U32Bytes),
       Zeros(CertLen),
       get_value_bytes(PacketOf(<<RoughtimeTag(KeySIG, Zeros(SigLen)),
                                  RoughtimeTag(KeyPATH, Zeros(SigLen + 8))>>)),
       get_value_bytes(PacketOf(<<
           [PacketOf(<<set_value_uint64(KeyMINT, 1), set_value_uint64(KeyMAXT, 2),
                       RoughtimeTag(KeyPAD, Zeros(PubKeyLen))>>)
              EXCEPT !.key = KeyDELE],
           RoughtimeTag(KeySIG, Zeros(SigLen))>>)),
       get_value_bytes(PacketOf(<<
           [PacketOf(<<set_value_uint64(KeyMINT, 1), set_value_uint64(KeyMAXT, 2),
                       RoughtimeTag(KeyPUBK, Zeros(PubKeyLen - U32Bytes))>>)
              EXCEPT !.key = KeyDELE],
           RoughtimeTag(KeySIG, Zeros(SigLen + U32Bytes))>>)) >>

\* The datagrams that reach the server's port.
ServerDatagrams ==
    << make_request(sha512(Blind(1))),
       get_value_bytes(PacketOf(<<RoughtimeTag(KeyNONC, sha512(Blind(1)))>>)),
       get_value_bytes(add_padding(PacketOf(
           <<RoughtimeTag(KeyNONC, Zeros(NonceLen - U32Bytes))>>))),
       get_value_bytes(add_padding(PacketOf(<<set_value_uint32(KeyINDX, 0)>>))),
       Zeros(MinRequestLen),
       get_value_bytes(PacketOf(<<RoughtimeTag(KeyNONC, sha512(Blind(1))),
                                  RoughtimeTag(KeyPAD, Zeros(RecvBufLen - 76))>>)),
       get_value_bytes(PacketOf(<<RoughtimeTag(KeyPAD, Zeros(RecvBufLen - 76)),
                                  RoughtimeTag(KeyNONC, sha512(Blind(1)))>>)) >>

\* The datagrams with their source addresses.
Arrivals == ({1} \X (1..Len(ServerDatagrams))) \cup {<<2, 1>>}

NoServer == [err |-> "no object", cert |-> EmptyPacket(KeyNone), pkey |-> 0, radi |-> 0]

\* A thread that has not yet run: about to test ref.run.
NewThread == [pc |-> "loop", sock |-> 0, dgram |-> 0, addr |-> 0, out |-> <<>>,
              running |-> TRUE, stopped |-> FALSE]

\* RoughtimeServer(cert, pkey, radi): the object, or the exception.
Construct(cert, pkey, radi) ==
    /\ main_pc = "none"
    /\ ~ctor.done
    /\ ctor' = [done |-> TRUE, cert |-> cert, pkey |-> pkey, radi |-> radi]
    /\ server' = RoughtimeServer(cert, pkey, radi)
    /\ main_pc' = IF server'.err = "" THEN "ready" ELSE "none"
    /\ call' = [op |-> "RoughtimeServer", err |-> server'.err, returned |-> TRUE]
    /\ UNCHANGED <<run, sock, thread, sockets, threads, srv_in, n_dgrams>>
    /\ UNCHANGED <<query_vars, codec_vars, mk, rx, dk>>

\* Whether a socket of this process is bound to the port.
in_use(port) ==
    \E j \in 1..Len(sockets) :
       sockets[j].bound /\ ~sockets[j].closed /\ sockets[j].port = port

\* start(ip, port): self.sock is assigned before bind(), which raises for a
\* port that is in use; self.run and self.thread are assigned after it.
Start(port) ==
    /\ main_pc = "ready"
    /\ Len(sockets) < MaxStarts
    /\ sock' = Len(sockets) + 1
    /\ IF in_use(port)
       THEN /\ sockets' = Append(sockets, [port |-> 0, bound |-> FALSE, closed |-> FALSE])
            /\ call' = [op |-> "start", err |-> "OSError", returned |-> TRUE]
            /\ UNCHANGED <<run, thread, threads>>
       ELSE /\ sockets' = Append(sockets, [port |-> port, bound |-> TRUE, closed |-> FALSE])
            /\ run' = "True"
            /\ threads' = Append(threads, NewThread)
            /\ thread' = Len(threads) + 1
            /\ call' = [op |-> "start", err |-> "", returned |-> TRUE]
    /\ UNCHANGED <<main_pc, ctor, srv_in, n_dgrams>>
    /\ UNCHANGED <<sys_vars, codec_vars, mk, rx, dk>>

\* stop() up to thread.join(): lines 88-91.
StopCall ==
    /\ main_pc = "ready"
    /\ IF run = "unset"
       THEN /\ call' = [op |-> "stop", err |-> "AttributeError", returned |-> TRUE]
            /\ UNCHANGED <<run, main_pc>>
       ELSE IF run = "False"
       THEN /\ call' = [op |-> "stop", err |-> "", returned |-> TRUE]
            /\ UNCHANGED <<run, main_pc>>
       ELSE /\ run' = "False"
            /\ main_pc' = "joining"
            /\ call' = [op |-> "stop", err |-> "", returned |-> FALSE]
    /\ UNCHANGED <<sock, thread, sockets, threads, ctor, srv_in, n_dgrams>>
    /\ UNCHANGED <<sys_vars, codec_vars, mk, rx, dk>>

\* stop() from the return of thread.join() on: lines 92-94.
StopJoined ==
    /\ main_pc = "joining"
    /\ threads[thread].pc \in {"dead", "crashed", "send failed", "pack failed"}
    /\ sockets' = [sockets EXCEPT ![sock].closed = TRUE]
    /\ srv_in' = {d \in srv_in : d[1] # sock}
    /\ thread' = 0
    /\ sock' = 0
    /\ main_pc' = "ready"
    /\ call' = [op |-> "stop", err |-> "", returned |-> TRUE]
    /\ UNCHANGED <<run, threads, ctor, n_dgrams>>
    /\ UNCHANGED <<sys_vars, codec_vars, mk, rx, dk>>

\* A socket that self.sock no longer names and that no thread is receiving
\* on is closed when the interpreter collects it.
Collect(k) ==
    /\ k \in 1..Len(sockets)
    /\ ~sockets[k].closed
    /\ sock # k
    /\ \A t \in 1..Len(threads) : ~(threads[t].pc = "recv" /\ threads[t].sock = k)
    /\ sockets' = [sockets EXCEPT ![k].closed = TRUE]
    /\ srv_in' = {d \in srv_in : d[1] # k}
    /\ UNCHANGED <<run, sock, thread, threads, main_pc, call, ctor, n_dgrams>>
    /\ UNCHANGED <<sys_vars, codec_vars, mk, rx, dk>>

\* A datagram from addr arrives at the bound socket k.
DatagramArrives(k, addr, i) ==
    /\ n_dgrams < MaxDatagrams
    /\ k \in 1..Len(sockets)
    /\ sockets[k].bound /\ ~sockets[k].closed
    /\ srv_in' = srv_in \cup {<<k, addr, i>>}
    /\ n_dgrams' = n_dgrams + 1
    /\ UNCHANGED <<run, sock, thread, sockets, threads, main_pc, call, ctor>>
    /\ UNCHANGED <<sys_vars, codec_vars, mk, rx, dk>>

\* What a step of a worker leaves alone.
caller_vars == <<run, sock, thread, main_pc, call, ctor, n_dgrams>>

\* Line 148 and the call of line 150: ref.run is tested and ref.sock read.
Looped ==
    IF run # "True" THEN [NewThread EXCEPT !.pc = "dead"]
    ELSE IF sock = 0 THEN [NewThread EXCEPT !.pc = "crashed"]
    ELSE [NewThread EXCEPT !.pc = "recv", !.sock = sock]

WorkerLoop(t) ==
    /\ threads[t].pc \in {"loop", "sent"}
    /\ threads' = [threads EXCEPT ![t] = Looped]
    /\ UNCHANGED <<sockets, srv_in>>
    /\ UNCHANGED caller_vars
    /\ UNCHANGED <<sys_vars, codec_vars, mk, rx, dk>>

\* Lines 151-152, 148 and 150: recvfrom times out (the timeout is set after
\* bind()) and the loop goes on to its next pass.
WorkerRecvTimeout(t) ==
    /\ threads[t].pc = "recv"
    /\ sockets[threads[t].sock].bound /\ ~sockets[threads[t].sock].closed
    /\ threads' = [threads EXCEPT ![t] = Looped]
    /\ UNCHANGED <<sockets, srv_in>>
    /\ UNCHANGED caller_vars
    /\ UNCHANGED <<sys_vars, codec_vars, mk, rx, dk>>

\* recvfrom on a socket that stop() has closed raises OSError, which line
\* 151 does not catch: the thread ends.
WorkerRecvClosed(t) ==
    /\ threads[t].pc = "recv"
    /\ sockets[threads[t].sock].closed
    /\ threads' = [threads EXCEPT ![t] = [NewThread EXCEPT !.pc = "crashed"]]
    /\ UNCHANGED <<sockets, srv_in>>
    /\ UNCHANGED caller_vars
    /\ UNCHANGED <<sys_vars, codec_vars, mk, rx, dk>>

\* Line 150: recvfrom returns a datagram of the socket's queue.
WorkerRecvDatagram(t) ==
    /\ threads[t].pc = "recv"
    /\ ~sockets[threads[t].sock].closed
    /\ \E d \in srv_in :
          /\ d[1] = threads[t].sock
          /\ srv_in' = srv_in \ {d}
          /\ threads' = [threads EXCEPT ![t] =
                [NewThread EXCEPT !.pc = "handle", !.dgram = d[3], !.addr = d[2]]]
    /\ UNCHANGED sockets
    /\ UNCHANGED caller_vars
    /\ UNCHANGED <<sys_vars, codec_vars, mk, rx, dk>>

\* struct.pack('<I', val) of set_value_uint32 raises struct.error unless
\* 0 <= val < 2^32 (the model has no values from 2^31 on).
pack_uint32_ok(val) == val >= 0

\* Lines 154-205 for the datagram that the thread holds; r is the outcome of
\* lines 154-203, and sendto raises on no socket and on a closed one.  A
\* thread at "sent" has ended its pass of the loop: out is what it sent,
\* running and stopped say whether stop() had been called and had returned.
\* A thread at "send failed" has ended with the exception of sendto.
\* A thread at "pack failed" has ended with the struct.error of line 196,
\* which is raised for a request that line 167 has let through.
WorkerSends(t, r) ==
    IF r.send /\ ~pack_uint32_ok(server.radi)
    THEN threads' = [threads EXCEPT ![t] =
            [NewThread EXCEPT !.pc = "pack failed", !.running = (run = "True")]]
    ELSE IF r.send /\ (sock = 0 \/ sockets[sock].closed)
    THEN threads' = [threads EXCEPT ![t] =
            [NewThread EXCEPT !.pc = "send failed", !.running = (run = "True")]]
    ELSE threads' = [threads EXCEPT ![t] =
            [@ EXCEPT !.pc = "sent",
                      !.out = IF r.send
                              THEN <<[to |-> threads[t].addr, data |-> r.data]>>
                              ELSE <<>>,
                      !.running = (run = "True"),
                      !.stopped = (main_pc = "ready" /\ run = "False")]]

WorkerHandle(t) ==
    /\ threads[t].pc = "handle"
    /\ \E r \in {ServerReply(server, recvfrom(ServerDatagrams[threads[t].dgram]), MINT)} :
          WorkerSends(t, r)
    /\ UNCHANGED <<sockets, srv_in>>
    /\ UNCHANGED caller_vars
    /\ UNCHANGED <<sys_vars, codec_vars, mk, rx, dk>>

InitServer ==
    /\ InitClient
    /\ max_history_len = 0
    /\ server = NoServer
    /\ InitTools
    /\ InitLife

NextServer ==
    \/ \E c \in 1..Len(CtorCerts) : Construct(CtorCerts[c], DelegateKey, 1)
    \/ \E port \in Ports : Start(port)
    \/ StopCall
    \/ StopJoined
    \/ \E k \in 1..MaxStarts : Collect(k)
    \/ \E k \in 1..MaxStarts, a \in Arrivals : DatagramArrives(k, a[1], a[2])
    \/ \E t \in 1..Len(threads) : WorkerLoop(t)
    \/ \E t \in 1..Len(threads) : WorkerRecvTimeout(t)
    \/ \E t \in 1..Len(threads) : WorkerRecvClosed(t)
    \/ \E t \in 1..Len(threads) : WorkerRecvDatagram(t)
    \/ \E t \in 1..Len(threads) : WorkerHandle(t)

SpecServer == InitServer /\ [][NextServer]_vars

(***************************************************************************)
(* The worker of a server that is constructed with any radius int(radi)    *)
(* accepts, started and not stopped.                                       *)
(***************************************************************************)
ConfigRadii == {-1, 0, 1}

NextRadius ==
    \/ \E radi \in ConfigRadii : Construct(CtorCerts[1], DelegateKey, radi)
    \/ \E port \in Ports : Start(port)
    \/ \E k \in 1..MaxStarts, a \in Arrivals : DatagramArrives(k, a[1], a[2])
    \/ \E t \in 1..Len(threads) : WorkerLoop(t)
    \/ \E t \in 1..Len(threads) : WorkerRecvTimeout(t)
    \/ \E t \in 1..Len(threads) : WorkerRecvDatagram(t)
    \/ \E t \in 1..Len(threads) : WorkerHandle(t)

SpecRadius == InitServer /\ [][NextRadius]_vars

(***************************************************************************)
(* The Merkle tree of a batch: __construct_merkle is given a list of        *)
(* nonces, os.urandom fills the leaves up to the next power of two, and     *)
(* __construct_merkle_path is asked for the path of one of the nonces.      *)
(***************************************************************************)
MaxBatch == 4

\* The 64-byte nonces of the requests of a batch.
BatchNonces == {Zeros(NonceLen), [Zeros(NonceLen) EXCEPT ![1] = B(1)]}

\* What os.urandom(64) can return for a filler leaf.
FillerLeaves == {Zeros(HashLen), [Zeros(HashLen) EXCEPT ![HashLen] = B(1)]}

\* merkle = __construct_merkle(nonces)
MerkleBuild ==
    /\ mk.merkle = <<>>
    /\ \E n \in 1..MaxBatch :
       \E nonces \in [1..n -> BatchNonces] :
       \E fill \in [1..(clp2(n) - n) -> FillerLeaves] :
          mk' = [NoBatch EXCEPT !.nonces = nonces,
                                !.merkle = construct_merkle(nonces, fill)]
    /\ UNCHANGED <<sys_vars, codec_vars, life_vars, rx, dk>>

\* path = __construct_merkle_path(merkle, i)
MerklePath(i) ==
    /\ mk.merkle # <<>>
    /\ ~mk.done
    /\ i \in 0..(Len(mk.nonces) - 1)
    /\ mk' = [mk EXCEPT !.index = i,
                        !.path = construct_merkle_path(mk.merkle, i),
                        !.done = TRUE]
    /\ UNCHANGED <<sys_vars, codec_vars, life_vars, rx, dk>>

\* The next batch.
MerkleReset ==
    /\ mk.done
    /\ mk' = NoBatch
    /\ UNCHANGED <<sys_vars, codec_vars, life_vars, rx, dk>>

NextMerkle ==
    \/ MerkleBuild
    \/ \E i \in 0..(MaxBatch - 1) : MerklePath(i)
    \/ MerkleReset

SpecMerkle == InitServer /\ [][NextMerkle]_vars

(***************************************************************************)
(* The receive loop of query, lines 335-344, with the clock it reads:       *)
(* rx.clock is time.monotonic() - start_time, which grows between any two   *)
(* steps; rx.data is the local variable data with the source it came from;  *)
(* rx.matched_at is the clock when recvfrom returned the datagram of the    *)
(* queried source (-1: none).                                               *)
(***************************************************************************)
MaxTimeout == 2
MaxRecv == 2

\* (repl_addr, repl_port) of a datagram; the first is (ip_addr, port).
Queried == <<1, 1>>
Sources == {<<1, 1>>, <<1, 2>>, <<2, 1>>}
DatagramIds == {1, 2}

\* Line 335: start_time is read; the loop begins.
WaitStart(timeout) ==
    /\ rx.pc = "idle"
    /\ rx' = [NoWait EXCEPT !.pc = "test", !.timeout = timeout]
    /\ UNCHANGED <<sys_vars, codec_vars, life_vars, mk, dk>>

\* Time passes.
WaitTick ==
    /\ rx.pc \in {"test", "recv", "check"}
    /\ rx.clock <= rx.timeout
    /\ rx' = [rx EXCEPT !.clock = @ + 1]
    /\ UNCHANGED <<sys_vars, codec_vars, life_vars, mk, dk>>

\* Line 336: while time.monotonic() - start_time < timeout.
WaitLoopTest ==
    /\ rx.pc = "test"
    /\ rx' = [rx EXCEPT !.pc = IF rx.clock < rx.timeout THEN "recv" ELSE "check"]
    /\ UNCHANGED <<sys_vars, codec_vars, life_vars, mk, dk>>

\* Lines 339-340: recvfrom raises socket.timeout.
WaitRecvTimeout ==
    /\ rx.pc = "recv"
    /\ rx' = [rx EXCEPT !.pc = "test"]
    /\ UNCHANGED <<sys_vars, codec_vars, life_vars, mk, dk>>

\* Lines 338, 341-342: recvfrom returns a datagram; the loop is left when it
\* comes from the queried address and port.
WaitRecvDatagram(src, id) ==
    /\ rx.pc = "recv"
    /\ rx.n_recv < MaxRecv
    /\ rx' = [rx EXCEPT !.data = <<src, id>>,
                        !.n_recv = @ + 1,
                        !.matched_at = IF src = Queried THEN rx.clock ELSE @,
                        !.pc = IF src = Queried THEN "check" ELSE "test"]
    /\ UNCHANGED <<sys_vars, codec_vars, life_vars, mk, dk>>

\* Lines 343-345: the clock is read again; data goes to the decoder when
\* the time read is below the timeout.
WaitTimeCheck ==
    /\ rx.pc = "check"
    /\ rx' = IF rx.clock >= rx.timeout
             THEN [rx EXCEPT !.pc = "done", !.err = ErrTimeout]
             ELSE [rx EXCEPT !.pc = "done", !.verified = rx.data]
    /\ UNCHANGED <<sys_vars, codec_vars, life_vars, mk, dk>>

\* The next query.
WaitReset ==
    /\ rx.pc = "done"
    /\ rx' = NoWait
    /\ UNCHANGED <<sys_vars, codec_vars, life_vars, mk, dk>>

NextWait ==
    \/ \E timeout \in 0..MaxTimeout : WaitStart(timeout)
    \/ WaitTick
    \/ WaitLoopTest
    \/ WaitRecvTimeout
    \/ \E src \in Sources, id \in DatagramIds : WaitRecvDatagram(src, id)
    \/ WaitTimeCheck
    \/ WaitReset

SpecWait == InitServer /\ [][NextWait]_vars

(***************************************************************************)
(* One call of __construct_merkle, step by step: the first call hashes the  *)
(* nonces, extends the list, counts the order in its while loop and hands   *)
(* over to the recursive calls, which return the levels.                    *)
(***************************************************************************)
\* The order counter is followed up to MaxOrder, above the order of every
\* list of MaxBatch nonces; a loop that has counted that far is still in
\* the loop.
MaxOrder == MaxBatch + 1

\* Lines 111-119, for a list of n nonces (n = 0: the empty list).
ConstructCall ==
    /\ mk.pc = "idle"
    /\ mk.merkle = <<>>
    /\ \E n \in 0..MaxBatch :
       \E nonces \in [1..n -> BatchNonces] :
       \E fill \in [1..(clp2(n) - n) -> FillerLeaves] :
          mk' = [NoBatch EXCEPT
                   !.pc = "order",
                   !.nonces = nonces,
                   !.leaves = [i \in 1..n |-> sha512(<<B(0)>> \o nonces[i])]
                                \o [i \in 1..(clp2(n) - n) |-> fill[i]],
                   !.size = clp2(n),
                   !.order = 0]
    /\ UNCHANGED <<sys_vars, codec_vars, life_vars, rx, dk>>

\* Lines 120-122: while size & 1 == 0: order += 1; size >>= 1
OrderStep ==
    /\ mk.pc = "order"
    /\ mk.size % 2 = 0
    /\ mk.order < MaxOrder
    /\ mk' = [mk EXCEPT !.order = mk.order + 1, !.size = mk.size \div 2]
    /\ UNCHANGED <<sys_vars, codec_vars, life_vars, rx, dk>>

\* Lines 123-134: the loop is left and the recursive calls return the levels.
ConstructReturn ==
    /\ mk.pc = "order"
    /\ mk.size % 2 = 1
    /\ mk' = [mk EXCEPT !.pc = "returned",
                        !.merkle = merkle_levels(mk.leaves, <<mk.leaves>>, mk.order)]
    /\ UNCHANGED <<sys_vars, codec_vars, life_vars, rx, dk>>

\* The next call.
ConstructReset ==
    /\ mk.pc = "returned"
    /\ mk' = NoBatch
    /\ UNCHANGED <<sys_vars, codec_vars, life_vars, rx, dk>>

NextLevels ==
    \/ ConstructCall
    \/ OrderStep
    \/ ConstructReturn
    \/ ConstructReset

\* The thread that calls __construct_merkle keeps running.
SpecLevels == InitServer /\ [][NextLevels]_vars /\ WF_vars(NextLevels)

(***************************************************************************)
(* Delegate issuance: create_delegate_key is called with a long-term key,   *)
(* with mint and maxt given or not (-1), and the cert it returns is handed, *)
(* with the delegate private key, to the RoughtimeServer constructor.       *)
(***************************************************************************)
\* The mint and maxt arguments: None, and uint64 values at both ends.
IssueTimes ==
    {-1, 0, 1, KeyCreationTime, KeyCreationTime + ValidityPeriod,
     Uint64Max - ValidityPeriod, Uint64Max - ValidityPeriod + 1, Uint64Max}

\* cert, dpriv = create_delegate_key(priv, mint, maxt) at the time now: the
\* struct.error of set_value_uint64 (lines 244-245) ends the call.
IssueDelegate(mint, maxt, now) ==
    /\ dk.pc = "idle"
    /\ \E w \in {delegate_window(mint, maxt, now)} :
          dk' = IF pack_uint64_ok(w[1]) /\ pack_uint64_ok(w[2])
                THEN [NoIssue EXCEPT !.pc = "issued", !.mint = mint, !.maxt = maxt,
                        !.now = now,
                        !.cert = get_value_bytes(
                            create_delegate_key(LongKey, mint, maxt, now, DelegateKey))]
                ELSE [NoIssue EXCEPT !.pc = "failed", !.mint = mint, !.maxt = maxt,
                        !.now = now, !.err = StructError]
    /\ UNCHANGED <<sys_vars, codec_vars, life_vars, mk, rx>>

\* RoughtimeServer(cert, dpriv, radi)
IssueUse(radi) ==
    /\ dk.pc = "issued"
    /\ dk' = [dk EXCEPT !.pc = "used",
                        !.ctor_err = RoughtimeServer(dk.cert, DelegateKey, radi).err]
    /\ UNCHANGED <<sys_vars, codec_vars, life_vars, mk, rx>>

\* The next call.
IssueReset ==
    /\ dk.pc \in {"failed", "used"}
    /\ dk' = NoIssue
    /\ UNCHANGED <<sys_vars, codec_vars, life_vars, mk, rx>>

NextIssue ==
    \/ \E mint \in IssueTimes, maxt \in IssueTimes, now \in {1, KeyCreationTime} :
          IssueDelegate(mint, maxt, now)
    \/ \E radi \in Radii : IssueUse(radi)
    \/ IssueReset

SpecIssue == InitServer /\ [][NextIssue]_vars

(***************************************************************************)
(* The properties.  When cl_pc = "done" a query has ended: cl_nonce,       *)
(* cl_blind and cl_pubkey are its locals, result.data the bytes handed to  *)
(* its checks, result.before the history when it was called, prev_replies  *)
(* the history it leaves.                                                  *)
(***************************************************************************)
\* A query has ended after its checks were handed a datagram.
QueryVerified == cl_pc = "done" /\ result.recv /\ result.intime

\* The reply of the server to this query's request at its wall-clock time now.
HonestReply(now) == ServerReply(server, make_request(cl_nonce), now).data

Min(a, b) == IF a < b THEN a ELSE b

\* The last n entries of s.
LastN(s, n) == SubSeq(s, Len(s) - Min(Len(s), n) + 1, Len(s))

C1_Exchange(now) ==
    (/\ QueryVerified
     /\ result.what = FromServer
     /\ cl_pubkey = PubBytes(LongKey)
     /\ result.data = HonestReply(now))
    => /\ result.err = ""
       /\ result.radi = server.radi
       /\ result.midp = now
       /\ prev_replies = LastN(Append(result.before,
                                      <<cl_nonce, cl_blind, HonestReply(now)>>),
                               max_history_len)
       /\ (result.before = <<>> => verify_replies(prev_replies) = <<>>)

\* C1: a query under the long-term public key that receives, with the time
\* of line 343 below the timeout, the reply that the server of test_server's
\* construction made at a wall-clock time in [MINT, MAXT], passes every
\* check, returns the server's radius as radi and the server's clock as midp,
\* appends exactly that one entry to the history (the bound of the history
\* applied), and verify_replies() of a client that was fresh is empty.
C1_HonestExchange ==
    \A now \in ClockValues : (MINT <= now /\ now <= MAXT) => C1_Exchange(now)

\* An honest exchange of a fresh client has ended with the clock at MAXT.
C1_Witness ==
    /\ QueryVerified
    /\ result.what = FromServer
    /\ cl_pubkey = PubBytes(LongKey)
    /\ result.data = HonestReply(MAXT)
    /\ result.before = <<>>
    /\ Len(prev_replies) = 1

\* The four conditions of acceptance, stated of the received bytes.
C2_Conditions(reply, srep, cert, dele, nonce, pubkey) ==
    /\ \E k \in KeyIds :
          /\ pubkey = PubBytes(k)
          /\ get_tag(cert, KeySIG).value
               = Sign(k, CERTIFICATE_CONTEXT \o get_value_bytes(dele))
    /\ to_int(get_tag(dele, KeyMINT)) <= to_int(get_tag(srep, KeyMIDP))
    /\ to_int(get_tag(srep, KeyMIDP)) <= to_int(get_tag(dele, KeyMAXT))
    /\ walk_path(sha512(<<B(0)>> \o nonce), to_int(get_tag(reply, KeyINDX)),
                 get_tag(reply, KeyPATH).value)
         = <<get_tag(srep, KeyROOT).value, 0>>
    /\ \E k \in KeyIds :
          /\ get_tag(dele, KeyPUBK).value = PubBytes(k)
          /\ get_tag(reply, KeySIG).value
               = Sign(k, SIGNED_RESPONSE_CONTEXT \o get_value_bytes(srep))

C2_Sound(reply, nonce, pubkey) ==
    C2_Conditions(reply, get_tag(reply, KeySREP), get_tag(reply, KeyCERT),
                  get_tag(get_tag(reply, KeyCERT), KeyDELE), nonce, pubkey)

\* The deliveries that change one byte of a field of the server's reply, or
\* its PATH.
C2_Changed == ({"flip"} \X (1..Len(FieldBytes))) \cup ({"alter"} \X (1..4))

\* C2: a query records its reply in the history or returns a result only if
\* its checks were handed bytes for which, with the query's nonce and public
\* key, CERT.SIG is the signature of CERT_CTX || DELE under that key,
\* MINT <= MIDP <= MAXT, the walk of PATH with INDX from sha512(0x00 || nonce)
\* ends at ROOT with INDX 0, and SIG is the signature of RESP_CTX || SREP
\* under DELE.PUBK; a reply with one byte of SREP, CERT.DELE, CERT.SIG, SIG
\* or INDX changed, or with PATH changed, is never accepted.
C2_AcceptanceSound ==
    cl_pc = "done" =>
       /\ (prev_replies # result.before \/ result.err = "")
          => /\ QueryVerified
             /\ result.err = ""
             /\ C2_Sound(Decode(KeyNone, result.data).tag, cl_nonce, cl_pubkey)
       /\ result.what \in C2_Changed => result.err # ""

\* The reply of the attacker's own server has been accepted by a query made
\* with the attacker's public key.
C2_Witness ==
    /\ QueryVerified
    /\ result.what = <<"made", 3>>
    /\ result.err = ""
    /\ Len(prev_replies) >= 1

C4_Passes(i, reply, srep, cert, dele, nonce, pubkey) ==
    CASE i = 1 -> Verify(pubkey, get_tag(cert, KeySIG).value,
                         CERTIFICATE_CONTEXT \o get_value_bytes(dele))
      [] i = 2 -> /\ to_int(get_tag(dele, KeyMINT)) <= to_int(get_tag(srep, KeyMIDP))
                  /\ to_int(get_tag(srep, KeyMIDP)) <= to_int(get_tag(dele, KeyMAXT))
      [] i = 3 -> /\ Len(get_tag(reply, KeyPATH).value) % HashLen = 0
                  /\ Len(get_tag(reply, KeyPATH).value) <= MaxPathHashes * HashLen
      [] i = 4 -> Len(get_tag(reply, KeyPATH).value) % HashLen = 0
                  => walk_path(sha512(<<B(0)>> \o nonce),
                               to_int(get_tag(reply, KeyINDX)),
                               get_tag(reply, KeyPATH).value)[2] = 0
      [] i = 5 -> Len(get_tag(reply, KeyPATH).value) % HashLen = 0
                  => walk_path(sha512(<<B(0)>> \o nonce),
                               to_int(get_tag(reply, KeyINDX)),
                               get_tag(reply, KeyPATH).value)[1]
                       = get_tag(srep, KeyROOT).value
      [] i = 6 -> Verify(get_tag(dele, KeyPUBK).value, get_tag(reply, KeySIG).value,
                         SIGNED_RESPONSE_CONTEXT \o get_value_bytes(srep))

\* The errors of the checks, in the order of the pipeline.
C4_Errors ==
    << {ErrDeleSig}, {ErrMidp}, {ErrPathLen, ErrPathMany}, {ErrIndx}, {ErrRoot},
       {ErrSig} >>

\* The checks that the reply fails.
C4_Failing(reply, srep, cert, dele, nonce, pubkey) ==
    {i \in 1..Len(C4_Errors) : ~C4_Passes(i, reply, srep, cert, dele, nonce, pubkey)}

\* The reply has every tag that lines 348-366 read, of the width they need.
C4_Complete(reply) ==
    /\ contains_tag(reply, KeySREP) /\ contains_tag(reply, KeyCERT)
    /\ contains_tag(reply, KeySIG) /\ contains_tag(reply, KeyPATH)
    /\ has_int(reply, KeyINDX)
    /\ has_int(get_tag(reply, KeySREP), KeyMIDP)
    /\ has_int(get_tag(reply, KeySREP), KeyRADI)
    /\ contains_tag(get_tag(reply, KeySREP), KeyROOT)
    /\ contains_tag(get_tag(reply, KeyCERT), KeySIG)
    /\ contains_tag(get_tag(reply, KeyCERT), KeyDELE)
    /\ contains_tag(get_tag(get_tag(reply, KeyCERT), KeyDELE), KeyPUBK)
    /\ has_int(get_tag(get_tag(reply, KeyCERT), KeyDELE), KeyMINT)
    /\ has_int(get_tag(get_tag(reply, KeyCERT), KeyDELE), KeyMAXT)

C4_Ordered(reply, err, failing) ==
    IF ~C4_Complete(reply) THEN err \in {ErrMissing, ErrParse}
    ELSE IF failing = {} THEN err = ""
    ELSE err \in C4_Errors[CHOOSE i \in failing : \A j \in failing : i <= j]

\* C4: a decoded reply with a tag missing fails with a missing-tag error, and
\* a reply with every tag fails with the error of the first check it fails in
\* the order delegation signature, midpoint window, PATH length, PATH index,
\* Merkle root, response signature.  A valid reply with one byte of ROOT
\* changed fails with the Merkle-root error, and the server's reply made at
\* the wall-clock time MAXT + 1 fails with the midpoint-window error.
C4_CheckOrder ==
    QueryVerified =>
       /\ Decode(KeyNone, result.data).err = ""
          => C4_Ordered(Decode(KeyNone, result.data).tag, result.err,
                 C4_Failing(Decode(KeyNone, result.data).tag,
                            get_tag(Decode(KeyNone, result.data).tag, KeySREP),
                            get_tag(Decode(KeyNone, result.data).tag, KeyCERT),
                            get_tag(get_tag(Decode(KeyNone, result.data).tag, KeyCERT),
                                    KeyDELE),
                            cl_nonce, cl_pubkey))
       /\ (/\ result.what \in {<<"flip", 1>>, <<"flip", 2>>}
           /\ cl_pubkey = PubBytes(LongKey)
           /\ \E now \in MINT..MAXT : rep_net = {HonestReply(now)})
          => result.err = ErrRoot
       /\ (/\ result.what = FromServer
           /\ cl_pubkey = PubBytes(LongKey)
           /\ result.data = HonestReply(MAXT + 1))
          => result.err = ErrMidp

\* A query has ended with a changed ROOT in a reply that was valid.
C4_Witness ==
    /\ QueryVerified
    /\ result.what = <<"flip", 1>>
    /\ cl_pubkey = PubBytes(LongKey)
    /\ rep_net = {HonestReply(MINT)}
    /\ result.err = ErrRoot

\* C5 as stated: every stored entry's nonce is sha512(previous reply bytes ||
\* blind), the previous reply bytes being those of the entry stored before it
\* and empty for the first stored entry.
C5_FirstStoredEmpty ==
    \A i \in 1..Len(prev_replies) :
       prev_replies[i][1]
         = sha512((IF i = 1 THEN <<>> ELSE prev_replies[i - 1][3])
                    \o prev_replies[i][2])

\* C5, amended: every stored entry's nonce is sha512(previous reply bytes ||
\* blind), the previous reply bytes being those of the entry stored before it
\* and, for the first stored entry, those of the reply that line 416 dropped
\* last, empty when no reply has been dropped.
C5_NonceChain ==
    \A i \in 1..Len(prev_replies) :
       prev_replies[i][1]
         = sha512((IF i = 1 THEN dropped ELSE prev_replies[i - 1][3])
                    \o prev_replies[i][2])

\* A history of one entry holds the second of two replies, the first dropped:
\* the nonce of the entry is chained to the dropped reply.
C5_Witness ==
    /\ max_history_len = 1
    /\ n_ok = 2
    /\ Len(prev_replies) = 1
    /\ dropped # <<>>
    /\ prev_replies[1][1] = sha512(dropped \o prev_replies[1][2])

C7_Field(entry, key) ==
    FromLE(get_tag(get_tag(Decode(KeyNone, entry[3]).tag, KeySREP), key).value)

\* The pairs of the causality condition, indexes from 0.
C7_Pairs(history) ==
    {<<i - 1, k - 1>> : <<i, k>> \in
        {p \in (1..Len(history)) \X (1..Len(history)) :
            /\ p[1] < p[2]
            /\ C7_Field(history[p[1]], KeyMIDP) - C7_Field(history[p[1]], KeyRADI)
                 > C7_Field(history[p[2]], KeyMIDP) + C7_Field(history[p[2]], KeyRADI)}}

\* A stored reply with the given MIDP and RADI.
C7_Entry(midp, radi) ==
    <<Zeros(NonceLen), Zeros(NonceLen),
      get_value_bytes(make_reply(server, make_srep(Zeros(HashLen), midp, radi), <<>>))>>

\* C7: verify_replies() returns, each once, exactly the pairs (i, k) with
\* i < k and midp_i - radi_i > midp_k + radi_k, read from the SREP of the
\* stored replies; it returns them as a list and leaves the history as it
\* was.  (1000000, 1000) followed by (500000, 1000) gives [(0, 1)].
C7_CausalityAudit ==
    cl_pc = "audited" =>
       /\ audit.fresh
       /\ {audit.pairs[j] : j \in 1..Len(audit.pairs)} = C7_Pairs(audit.before)
       /\ Len(audit.pairs) = Cardinality(C7_Pairs(audit.before))
       /\ prev_replies = audit.before
       /\ verify_replies(<<C7_Entry(1000000, 1000), C7_Entry(500000, 1000)>>)
            = << <<0, 1>> >>

\* verify_replies() has returned [(0, 1)] for a later reply whose interval
\* lies before the earlier one's.
C7_Witness ==
    /\ cl_pc = "audited"
    /\ Len(audit.before) = 2
    /\ audit.pairs = << <<0, 1>> >>

\* C8: after add_padding() the encoded length is exactly 1024 whenever it was
\* below 1024 before the call, the packet is unchanged when it was 1024 or
\* more, and the request of a query has at least 1024 bytes.
C8_PaddingExact ==
    /\ (cd_padded.done /\ ~cd_padded.raised)
       => /\ Len(get_value_bytes(cd_padded.before)) < PaddedLen
             => Len(get_value_bytes(cd_pkt)) = PaddedLen
          /\ Len(get_value_bytes(cd_padded.before)) >= PaddedLen
             => cd_pkt = cd_padded.before
    /\ Len(make_request(sha512(<<>>))) >= MinRequestLen

\* C9: bytes that RoughtimePacket(packet=...) accepts are what
\* get_value_bytes() of the packet it gives returns, and the bytes that
\* get_value_bytes() returns for a packet built with add_tag from leaves and
\* nested packets are accepted and give that packet again: the same keys
\* with the same values in the same order.
C9_RoundTrip ==
    /\ (cd_dec.done /\ cd_dec.err = "")
       => get_value_bytes(cd_dec.tag) = cd_dec.from
    /\ Decode(KeyNone, get_value_bytes(cd_pkt)).err = ""
    /\ Decode(KeyNone, get_value_bytes(cd_pkt)).tag = cd_pkt

\* Garbled bytes of a packet with a nested CERT have been accepted.
C9_Witness ==
    /\ cd_pc = "decoded"
    /\ cd_dec.err = ""
    /\ contains_tag(cd_pkt, KeyCERT)
    /\ Len(cd_pkt.tags) >= 2
    /\ cd_dec.from # get_value_bytes(cd_pkt)
    /\ cd_dec.tag # cd_pkt

\* The order of two keys by their 32-bit little-endian values.
C10_KeyLess(a, b) ==
    \E i \in 1..4 : a[i] < b[i] /\ \A j \in (i + 1)..4 : a[j] = b[j]

RECURSIVE C10_Ascending(_)
C10_Ascending(t) ==
    /\ \A i \in 1..(Len(t.tags) - 1) : C10_KeyLess(t.tags[i].key, t.tags[i + 1].key)
    /\ \A i \in 1..Len(t.tags) : t.tags[i].pkt => C10_Ascending(t.tags[i])

\* C10: in every message that the client and the server encode and send,
\* and in the SREP, CERT and DELE inside, the keys are in strictly ascending
\* order of their 32-bit little-endian values.
C10_AscendingKeys ==
    \A g \in req_net \cup rep_net : C10_Ascending(Decode(KeyNone, g).tag)

\* The received bytes are at least 1024, decode as a message and hold a NONC
\* tag of 64 bytes.
C11_WellFormed(dec) ==
    /\ dec.err = ""
    /\ \E i \in 1..Len(dec.tag.tags) :
          /\ dec.tag.tags[i].key = KeyNONC
          /\ ~dec.tag.tags[i].pkt
          /\ Len(dec.tag.tags[i].value) = 64

C11_Accepts(data) == Len(data) >= 1024 /\ C11_WellFormed(Decode(KeyNone, data))

C11_Intake(th, data) ==
    /\ (th.pc = "sent" /\ th.running)
       => /\ Len(th.out) = (IF C11_Accepts(data) THEN 1 ELSE 0)
          /\ \A o \in 1..Len(th.out) : th.out[o].to = th.addr
    /\ th.pc = "send failed" => ~th.running

\* C11: a worker of a server on which stop() has not been called, having
\* handled the bytes that recvfrom gave it, has sent one datagram, to the
\* address the bytes came from, when they are at least 1024 bytes, decode as
\* a message and hold a NONC tag of 64 bytes, and has sent nothing otherwise;
\* its sendto has not raised.
C11_ServerIntake ==
    \A t \in 1..Len(threads) :
       C11_Intake(threads[t],
                  IF threads[t].dgram = 0 THEN <<>>
                  ELSE recvfrom(ServerDatagrams[threads[t].dgram]))

\* A worker has answered the request that came from the second address.
C11_Witness ==
    \E t \in 1..Len(threads) :
       /\ threads[t].pc = "sent"
       /\ threads[t].running
       /\ threads[t].dgram = 1
       /\ threads[t].addr = 2
       /\ Len(threads[t].out) = 1
       /\ threads[t].out[1].to = 2

\* The exception kinds of the model that are not RoughtimeError.
OtherExceptions == {AssertionError, StructError, "AttributeError", "OSError"}

\* C12: the constructor succeeds only if the decoded cert is 152 bytes long
\* and the key at CERT.DELE.PUBK is the public half of pkey; for every other
\* input it raises RoughtimeError and no server object is obtained.
C12_ConstructionCheck ==
    ctor.done =>
       /\ server.err = "" =>
            /\ Len(ctor.cert) = CertLen
            /\ contains_tag(server.cert, KeyDELE)
            /\ contains_tag(get_tag(server.cert, KeyDELE), KeyPUBK)
            /\ get_tag(get_tag(server.cert, KeyDELE), KeyPUBK).value
                  = PubBytes(ctor.pkey)
       /\ server.err # "" =>
            /\ server.err \notin OtherExceptions
            /\ main_pc = "none"

\* The thread has ended.
Ended(th) == th.pc \in {"dead", "crashed", "send failed", "pack failed"}

\* stop() has returned or raised, and nothing was called since.
C13_Stopped == call.op = "stop" /\ call.returned

C13_Quiet ==
    /\ call.err = ""
    /\ run = "False"
    /\ \A t \in 1..Len(threads) : Ended(threads[t])
    /\ \A k \in 1..Len(sockets) : sockets[k].closed

\* A step that is a call of stop() right after a call of stop().
C13_Repeated ==
    (C13_Stopped /\ call'.op = "stop" /\ call'.returned /\ main_pc' = main_pc)
    => /\ call'.err = ""
       /\ UNCHANGED <<run, sock, thread, sockets, threads>>

\* C13: in every state of a constructed server (never started, running,
\* stopped) stop() returns without error and leaves the run flag false, no
\* worker alive and no open socket, and a stop() called right after it changes
\* nothing and raises nothing.
C13_StopIdempotent == [](C13_Stopped => C13_Quiet) /\ [][C13_Repeated]_vars

\* C14: every failure of query (a timeout, a reply that does not decode, a
\* missing or ill-sized tag, a DELE.PUBK of the wrong length, a failed
\* check) reaches the caller as a RoughtimeError, never as another kind of
\* exception.
C14_ErrorKind ==
    (cl_pc = "done" /\ result.done /\ result.err # "")
    => result.err \notin OtherExceptions

\* The offset of the value of tag i (0-based) of the n tags of b, and its end.
C15_Offset(b, n, i) == IF i = 0 THEN 8 * n ELSE unpack_uint32(b, i * 4) + 8 * n
C15_End(b, n, i) == IF i = n - 1 THEN Len(b) ELSE C15_Offset(b, n, i + 1)

\* The header of b, n tags, is ill-formed: an offset out of range or the
\* offsets out of order, a key twice, a key that is not permitted.
C15_BadHeader(b, n) ==
    \/ \E i \in 0..(n - 1) :
          \/ C15_Offset(b, n, i) > Len(b)
          \/ C15_Offset(b, n, i) > C15_End(b, n, i)
          \/ unpack_key(b, (n + i) * 4) \notin leaf_tags \cup parent_tags
    \/ \E i, j \in 0..(n - 1) :
          i < j /\ unpack_key(b, (n + i) * 4) = unpack_key(b, (n + j) * 4)

\* b is one of the byte strings that the decoder is to reject, at some level
\* of nesting.
RECURSIVE C15_Malformed(_)
C15_Nested(b, n) ==
    \E i \in 0..(n - 1) :
       /\ unpack_key(b, (n + i) * 4) \in parent_tags
       /\ C15_Malformed(Slice(b, C15_Offset(b, n, i), C15_End(b, n, i)))

C15_Malformed(b) ==
    IF Len(b) % 4 # 0 THEN TRUE
    ELSE IF Len(b) < U32Bytes THEN FALSE
    ELSE IF 8 * unpack_uint32(b, 0) > Len(b) THEN TRUE
    ELSE IF C15_BadHeader(b, unpack_uint32(b, 0)) THEN TRUE
    ELSE C15_Nested(b, unpack_uint32(b, 0))

\* C15: RoughtimePacket(packet=b) returns a message or raises RoughtimeError,
\* and it raises RoughtimeError when the size of b is not a multiple of 4,
\* the header is longer than b, an offset is out of range or the offsets are
\* out of order, a key occurs twice or is not permitted, at every level of
\* nesting.
C15_DecoderRejection ==
    cd_dec.done =>
       /\ cd_dec.err \notin OtherExceptions
       /\ C15_Malformed(cd_dec.from) => cd_dec.err # ""

\* The server's reply with a PATH of 4 bytes, of 33 hashes, of 65 bytes.
C16_BadPaths == {<<"alter", 3>>, <<"alter", 4>>, <<"alter", 13>>}

\* C16: a reply whose PATH length is not a multiple of 64 (such as 65
\* bytes) or is more than 32 hashes, and which passes the checks of the
\* delegation signature and of the midpoint window, makes query fail with
\* 'PATH length not a multiple of 64.' or 'Too many paths in Merkle tree.'
\* and with no other error.
C16_PathLengthCheck ==
    (/\ cl_pc = "done" /\ result.recv /\ result.intime
     /\ result.what \in C16_BadPaths
     /\ cl_pubkey = PubBytes(LongKey)
     /\ \E now \in MINT..MAXT : rep_net = {HonestReply(now)})
    => result.err \in {ErrPathLen, ErrPathMany}

\* The decoded reply has what lines 348-366 read, passes the checks of the
\* delegation signature and of the midpoint window, and its PATH is not a
\* whole number of hashes.
C16_Unaligned(reply, srep, cert, dele, pubkey) ==
    /\ C4_Passes(1, reply, srep, cert, dele, <<>>, pubkey)
    /\ C4_Passes(2, reply, srep, cert, dele, <<>>, pubkey)
    /\ Len(get_tag(reply, KeyPATH).value) % HashLen # 0

C16_Decoded(dec, err, pubkey) ==
    (dec.err = "" /\ C4_Complete(dec.tag))
    => (C16_Unaligned(dec.tag, get_tag(dec.tag, KeySREP), get_tag(dec.tag, KeyCERT),
                      get_tag(get_tag(dec.tag, KeyCERT), KeyDELE), pubkey)
        => err = ErrPathLen)

\* C16 (amended): a reply that query decodes from the 1500 bytes it
\* receives, that passes the checks of the delegation signature and of the
\* midpoint window and whose PATH length is not a multiple of 64 makes query
\* fail with 'PATH length not a multiple of 64.'; the server's reply with
\* its PATH replaced by 65 bytes is rejected by the decoder, before every
\* check, with 'Packet size is not a multiple of four.'; and no query fails
\* with 'Too many paths in Merkle tree.'.
C16_PathLengthDecoded ==
    (cl_pc = "done" /\ result.recv /\ result.intime) =>
       /\ C16_Decoded(Decode(KeyNone, result.data), result.err, cl_pubkey)
       /\ result.what = <<"alter", 13>> => result.err = ErrSize
       /\ result.err # ErrPathMany

\* A query has failed on the server's reply with a PATH of 4 bytes.
C16_Witness ==
    /\ cl_pc = "done" /\ result.recv /\ result.intime
    /\ result.what = <<"alter", 3>>
    /\ cl_pubkey = PubBytes(LongKey)
    /\ \E now \in MINT..MAXT : rep_net = {HonestReply(now)}
    /\ Len(get_tag(Decode(KeyNone, result.data).tag, KeyPATH).value) = U32Bytes
    /\ result.err = ErrPathLen

\* log2 of the next power of two that is at least n.
C17_Depth(n) == CHOOSE k \in 0..n : 2^k >= n /\ \A j \in 0..(k - 1) : 2^j < n

\* C17: for every batch of n >= 1 nonces and every position i < n, the path
\* of __construct_merkle_path(__construct_merkle(nonces), i), walked as the
\* client walks it from sha512(0x00 || nonce_i) with INDX = i, ends with
\* INDX = 0 and with the root merkle[-1][0] of the tree, and it has log2(next
\* power of two >= n) hashes.
C17_MerkleSound ==
    mk.done =>
       /\ walk_path(sha512(<<B(0)>> \o mk.nonces[mk.index + 1]), mk.index, mk.path)
             = <<mk.merkle[Len(mk.merkle)][1], 0>>
       /\ Len(mk.path) = HashLen * C17_Depth(Len(mk.nonces))

\* The path of the third of three nonces, next to a filler leaf.
C17_Witness ==
    /\ mk.done
    /\ Len(mk.nonces) = 3
    /\ mk.index = 2
    /\ Len(mk.path) = 2 * HashLen
    /\ Len(mk.merkle[Len(mk.merkle)]) = 1

\* The reply has the five tags and the values that the request's nonce, the
\* constructor's arguments and the one-leaf tree give them.
C18_Reply(rep, nonce) ==
    /\ Len(rep.tags) = 5
    /\ {rep.tags[k].key : k \in 1..Len(rep.tags)}
          = {KeySIG, KeyPATH, KeySREP, KeyCERT, KeyINDX}
    /\ to_int(get_tag(rep, KeyINDX)) = 0
    /\ get_tag(rep, KeyPATH).value = <<>>
    /\ get_tag(get_tag(rep, KeySREP), KeyROOT).value = sha512(<<B(0)>> \o nonce)
    /\ to_int(get_tag(get_tag(rep, KeySREP), KeyRADI)) = ctor.radi
    /\ get_value_bytes(get_tag(rep, KeyCERT)) = ctor.cert
    /\ get_tag(rep, KeySIG).value
          = Sign(ctor.pkey,
                 SIGNED_RESPONSE_CONTEXT \o get_value_bytes(get_tag(rep, KeySREP)))

C18_Sent(dec, request) ==
    dec.err = "" /\ C18_Reply(dec.tag, get_tag(request.tag, KeyNONC).value)

\* C18: every reply the server sends has exactly the five tags SIG, PATH,
\* SREP, CERT, INDX, with INDX = 0, PATH empty, SREP.ROOT = sha512(0x00 ||
\* request nonce), SREP.RADI the configured radius, CERT the constructor's
\* cert bytes and SIG the signature of RESP_CTX || encode(SREP) under the
\* delegate private key.
C18_ReplyShape ==
    \A t \in 1..Len(threads) :
       \A o \in 1..Len(threads[t].out) :
          C18_Sent(Decode(KeyNone, threads[t].out[o].data),
                   Decode(KeyNone, recvfrom(ServerDatagrams[threads[t].dgram])))

\* A worker has sent its reply to the request of 1504 bytes.
C18_Witness ==
    \E t \in 1..Len(threads) :
       /\ threads[t].pc = "sent"
       /\ threads[t].dgram = 6
       /\ Len(threads[t].out) = 1
       /\ ctor.done /\ ctor.radi = 1 /\ ctor.cert = get_value_bytes(TestCert)

\* The worker is not receiving from a closed socket, has not ended in
\* recvfrom or sendto on a socket that stop() closed or set to None, and
\* has sent nothing after stop() returned.
C19_Orderly(th) ==
    /\ th.pc = "recv" => ~sockets[th.sock].closed
    /\ th.pc \notin {"crashed", "send failed"}
    /\ (th.pc = "sent" /\ th.stopped) => th.out = <<>>

\* C19: a worker that is handling a datagram when stop() is called finishes
\* it, reply included, before it exits; the socket is closed only after the
\* worker has ended, so that no worker receives from or sends on a closed
\* socket; and after stop() has returned the server sends no datagram.
C19_GracefulShutdown ==
    /\ \A t \in 1..Len(threads) : C19_Orderly(threads[t])
    /\ (main_pc = "ready" /\ run = "False")
       => \A t \in 1..Len(threads) : Ended(threads[t])

\* The workers that have not ended.
C20_Alive == {t \in 1..Len(threads) : ~Ended(threads[t])}

\* C20: over every sequence of start() and stop() calls on one server, at
\* most one receive worker is alive, it is the only reader of the server's
\* socket, and when a stop() returns every socket that a start() opened is
\* closed and every worker that was started has ended.
C20_SingleWorker ==
    /\ Cardinality(C20_Alive) <= 1
    /\ \A t \in C20_Alive : threads[t].pc = "recv" => threads[t].sock = sock
    /\ (call.op = "stop" /\ call.returned /\ call.err = "")
       => /\ C20_Alive = {}
          /\ \A k \in 1..Len(sockets) : sockets[k].closed

\* recvfrom returned a datagram of the queried source before the timeout
\* had elapsed.
C21_InTime == rx.matched_at >= 0 /\ rx.matched_at < rx.timeout

\* C21: the bytes that query verifies come from a datagram whose source is
\* the queried address and port, datagrams from other sources are passed
\* over, and query raises the Timeout error if and only if no datagram of
\* the queried source was received before the timeout elapsed: a matching
\* datagram received while the elapsed time is below the timeout is passed
\* on to the verification.
C21_MatchingAndTimeout ==
    rx.pc = "done" =>
       /\ rx.verified # <<>> => rx.verified[1] = Queried
       /\ rx.err = ErrTimeout <=> ~C21_InTime
       /\ C21_InTime => rx.verified = rx.data

\* C22: for every server that the constructor accepts, with any radius it
\* accepts, and every datagram received, the worker drops the datagram or
\* replies and goes back to receiving while the run flag is set: no
\* datagram and no accepted configuration makes the worker thread end.
C22_WorkerLiveness ==
    run = "True" => \A t \in 1..Len(threads) : ~Ended(threads[t])

\* The cert has 152 bytes and its DELE the given MINT and MAXT.
C23_Cert(cert, dec, mint, maxt) ==
    /\ Len(cert) = CertLen
    /\ dec.err = ""
    /\ to_int(get_tag(get_tag(dec.tag, KeyDELE), KeyMINT)) = mint
    /\ to_int(get_tag(get_tag(dec.tag, KeyDELE), KeyMAXT)) = maxt

\* C23: for every mint and maxt, omitted or a uint64 value,
\* create_delegate_key returns a CERT of 152 bytes whose DELE has MINT <=
\* MAXT, MINT being the mint supplied and MAXT the maxt supplied, MAXT being
\* MINT + 30 days only when maxt is omitted, and the constructor accepts the
\* pair it returns.
C23_IssuedAsSupplied ==
    dk.pc # "idle" =>
       /\ dk.err = ""
       /\ C23_Cert(dk.cert, Decode(KeyCERT, dk.cert),
                   IF dk.mint = -1 THEN dk.now ELSE dk.mint,
                   IF dk.maxt = -1
                   THEN (IF dk.mint = -1 THEN dk.now ELSE dk.mint) + ValidityPeriod
                   ELSE dk.maxt)
       /\ dk.maxt # -1 => (IF dk.mint = -1 THEN dk.now ELSE dk.mint) <= dk.maxt
       /\ dk.pc = "used" => dk.ctor_err = ""

\* The call returns a cert for the window w, or raises for a window beyond
\* 64 bits.
C23_Issued(w) ==
    IF pack_uint64_ok(w[2])
    THEN /\ dk.err = ""
         /\ C23_Cert(dk.cert, Decode(KeyCERT, dk.cert), w[1], w[2])
         /\ w[1] < w[2]
         /\ dk.pc = "used" => dk.ctor_err = ""
    ELSE dk.pc = "failed" /\ dk.err = StructError /\ dk.cert = <<>>

\* C23 (amended): for every mint and maxt, omitted or a uint64 value,
\* create_delegate_key writes MINT = mint (the time of the call when mint is
\* omitted) and MAXT = maxt when maxt is supplied and greater than MINT,
\* MAXT = MINT + 30 days when maxt is omitted or not greater than MINT; when
\* that MAXT fits 64 bits it returns a CERT of 152 bytes with MINT < MAXT
\* that the constructor accepts with the delegate key returned, and
\* otherwise it raises struct.error.
C23_DelegateIssuance ==
    dk.pc # "idle" =>
       C23_Issued(<< IF dk.mint = -1 THEN dk.now ELSE dk.mint,
                     IF dk.maxt = -1
                          \/ dk.maxt <= (IF dk.mint = -1 THEN dk.now ELSE dk.mint)
                     THEN (IF dk.mint = -1 THEN dk.now ELSE dk.mint) + ValidityPeriod
                     ELSE dk.maxt >>)

\* A cert issued for maxt = mint was accepted by the constructor.
C23_Witness ==
    /\ dk.pc = "used"
    /\ dk.mint = KeyCreationTime
    /\ dk.maxt = KeyCreationTime
    /\ dk.ctor_err = ""
    /\ to_int(get_tag(get_tag(Decode(KeyCERT, dk.cert).tag, KeyDELE), KeyMAXT))
         = KeyCreationTime + ValidityPeriod

\* The least power of two that is at least n.
RECURSIVE C24_PowerOfTwo(_, _)
C24_PowerOfTwo(n, p) == IF p >= n THEN p ELSE C24_PowerOfTwo(n, 2 * p)

\* The first level has the next power of two of elements, each level half of
\* the one before, the last level one element.
C24_Shape(merkle, n) ==
    /\ Len(merkle) >= 1
    /\ Len(merkle[1]) = C24_PowerOfTwo(n, 1)
    /\ \A k \in 2..Len(merkle) : 2 * Len(merkle[k]) = Len(merkle[k - 1])
    /\ Len(merkle[Len(merkle)]) = 1

\* C24: for every finite list of nonces, the empty list included,
\* __construct_merkle returns after finitely many steps, and what it returns
\* is a list of levels whose first level has the next power of two >= the
\* number of nonces of elements, each following level half of the previous
\* one, the last level exactly one element.
C24_Terminates ==
    /\ [](mk.pc = "order" => <>(mk.pc = "returned"))
    /\ [](mk.pc = "returned" => C24_Shape(mk.merkle, Len(mk.nonces)))

====
